---------------------------- MODULE Spec2Model ----------------------------
(***************************************************************************)
(* OAuth App Marketplace: the review pages (OAuthAppReviews,               *)
(* OAuthAppDetails), the credential management of MyOAuthApps and the      *)
(* store they talk to, as state machines.                                  *)
(***************************************************************************)
EXTENDS Integers, Sequences, FiniteSets, TLC

(***************************************************************************)
(* JavaScript numbers.  A number is an IEEE 754 double: here a finite      *)
(* non-negative double is the pair (m, e) that stands for m * 2^e, with m  *)
(* a natural number of exactly MantissaBits bits (or 0), so that equal     *)
(* numbers are equal records.  m is written in base 2^LimbBits, least      *)
(* significant limb first, without leading zero limbs.  Every operation    *)
(* computes the exact result and rounds it to the nearest double, ties to  *)
(* even.  Subnormal numbers and overflow to Infinity are out of reach of   *)
(* the values computed here.                                               *)
(***************************************************************************)
MantissaBits == 53
\* limbs of one bit less than half a 32-bit integer, so that a product of two fits
LimbBits == 16 - 1
Base == 2 ^ LimbBits

RECURSIVE BigOf(_)
BigOf(n) == IF n = 0 THEN <<>> ELSE <<n % Base>> \o BigOf(n \div Base)

\* b without its most significant zero limbs
BigTrim(b) ==
  IF \A i \in 1..Len(b) : b[i] = 0 THEN <<>>
  ELSE SubSeq(b, 1, CHOOSE i \in 1..Len(b) :
                      b[i] # 0 /\ \A j \in (i + 1)..Len(b) : b[j] = 0)

RECURSIVE BigAddC(_, _, _)
BigAddC(a, b, c) ==
  IF a = <<>> /\ b = <<>> THEN (IF c = 0 THEN <<>> ELSE <<c>>)
  ELSE LET x == IF a = <<>> THEN 0 ELSE Head(a)
           y == IF b = <<>> THEN 0 ELSE Head(b)
           s == x + y + c
       IN  <<s % Base>> \o BigAddC(IF a = <<>> THEN <<>> ELSE Tail(a),
                                   IF b = <<>> THEN <<>> ELSE Tail(b),
                                   s \div Base)

BigAdd(a, b) == BigAddC(a, b, 0)

\* a * k + c for k and c below Base
RECURSIVE BigMulSmall(_, _, _)
BigMulSmall(a, k, c) ==
  IF a = <<>> THEN (IF c = 0 THEN <<>> ELSE <<c>>)
  ELSE LET s == Head(a) * k + c
       IN  <<s % Base>> \o BigMulSmall(Tail(a), k, s \div Base)

\* a / t for 0 < t <= Base: the quotient and the remainder
DivStep(hi, low, t) ==
  [q |-> <<(hi.r * Base + low) \div t>> \o hi.q, r |-> (hi.r * Base + low) % t]

RECURSIVE BigDivSmall(_, _)
BigDivSmall(a, t) ==
  IF a = <<>> THEN [q |-> <<>>, r |-> 0]
  ELSE DivStep(BigDivSmall(Tail(a), t), Head(a), t)

\* a * 2^s
BigShl(a, s) ==
  IF a = <<>> THEN <<>>
  ELSE [i \in 1..(s \div LimbBits) |-> 0] \o BigMulSmall(a, 2 ^ (s % LimbBits), 0)

\* the number of bits of a limb, and of a
LimbLen(v) == IF v = 0 THEN 0 ELSE CHOOSE k \in 1..LimbBits : 2 ^ (k - 1) <= v /\ v < 2 ^ k
BigLen(a) == IF a = <<>> THEN 0 ELSE LimbBits * (Len(a) - 1) + LimbLen(a[Len(a)])

BigLeq(a, b) ==
  IF Len(a) # Len(b) THEN Len(a) < Len(b)
  ELSE a = b \/ \E i \in 1..Len(a) :
                  a[i] < b[i] /\ \A j \in (i + 1)..Len(a) : a[j] = b[j]

BigOdd(a) == a # <<>> /\ a[1] % 2 = 1

\* how a remainder v * Base^Len(rest) + rest compares with h * Base^Len(rest)
CompareHalf(v, h, rest) ==
  IF v < h THEN (IF v = 0 /\ \A i \in 1..Len(rest) : rest[i] = 0 THEN "zero" ELSE "below")
  ELSE IF v = h THEN (IF \A i \in 1..Len(rest) : rest[i] = 0 THEN "half" ELSE "above")
  ELSE "above"

ShrLimbs(qr, j, low) == [q |-> BigTrim(qr.q), rem |-> CompareHalf(qr.r, 2 ^ (j - 1), low)]

\* a / 2^d for d > 0: the quotient, and how the remainder compares with half of 2^d
BigShrAt(a, k, j, n) ==
  IF j > 0
  THEN ShrLimbs(BigDivSmall(SubSeq(a, n + 1, Len(a)), 2 ^ j), j, SubSeq(a, 1, n))
  ELSE [q   |-> SubSeq(a, n + 1, Len(a)),
        rem |-> IF n < k THEN CompareHalf(0, 1, SubSeq(a, 1, n))
                ELSE CompareHalf(a[n], Base \div 2, SubSeq(a, 1, n - 1))]

BigShr(a, d) ==
  BigShrAt(a, d \div LimbBits, d % LimbBits,
           IF d \div LimbBits < Len(a) THEN d \div LimbBits ELSE Len(a))

NaN == [kind |-> "NaN", m |-> <<>>, e |-> 0]
Infinity == [kind |-> "Infinity", m |-> <<>>, e |-> 0]

\* the mantissa r of n bits at most MantissaBits + 1, with exponent e
Normal(r, e) ==
  IF BigLen(r) > MantissaBits
  THEN [kind |-> "num", m |-> BigDivSmall(r, 2).q, e |-> e + 1]
  ELSE [kind |-> "num", m |-> r, e |-> e]

RoundUp(rem, sticky, q) ==
  IF sticky THEN rem \in {"half", "above"}
  ELSE rem = "above" \/ (rem = "half" /\ BigOdd(q))

Rounded(s, e, sticky) ==
  Normal(IF RoundUp(s.rem, sticky, s.q) THEN BigAdd(s.q, <<1>>) ELSE s.q, e)

RoundAt(m, e, sticky, n) ==
  IF n = 0 THEN [kind |-> "num", m |-> <<>>, e |-> 0]
  ELSE IF n <= MantissaBits
  THEN [kind |-> "num", m |-> BigShl(m, MantissaBits - n), e |-> e - (MantissaBits - n)]
  ELSE Rounded(BigShr(m, n - MantissaBits), e + (n - MantissaBits), sticky)

\* m * 2^e (plus a nonzero part below the last bit when sticky) to the nearest double
RoundDouble(m, e, sticky) == RoundAt(m, e, sticky, BigLen(m))

FInt(n) == RoundDouble(BigOf(n), 0, FALSE)

FIsZero(x) == x.kind = "num" /\ x.m = <<>>

FAdd(x, y) ==
  IF x.kind = "NaN" \/ y.kind = "NaN" THEN NaN
  ELSE IF x.kind = "Infinity" \/ y.kind = "Infinity" THEN Infinity
  ELSE IF FIsZero(x) THEN y
  ELSE IF FIsZero(y) THEN x
  ELSE LET e == IF x.e < y.e THEN x.e ELSE y.e
       IN  RoundDouble(BigAdd(BigShl(x.m, x.e - e), BigShl(y.m, y.e - e)), e, FALSE)

\* the integer a double stands for, when it is one below Base
FSmallInt(x) == BigShr(x.m, 0 - x.e).q[1]

\* x * y for a factor y that is a positive integer below Base (here: 100, or a count)
FMul(x, y) ==
  IF x.kind = "NaN" \/ y.kind = "NaN" THEN NaN
  ELSE IF x.kind = "Infinity" \/ y.kind = "Infinity"
       THEN (IF FIsZero(x) \/ FIsZero(y) THEN NaN ELSE Infinity)
  ELSE IF FIsZero(x) \/ FIsZero(y) THEN FInt(0)
  ELSE RoundDouble(BigMulSmall(x.m, FSmallInt(y), 0), x.e, FALSE)

DivRounded(d, e) == RoundDouble(BigTrim(d.q), e, d.r # 0)

\* x / y for a divisor y that is a positive integer below Base (here: a count of reviews)
FDiv(x, y) ==
  IF x.kind = "NaN" \/ y.kind = "NaN" THEN NaN
  ELSE IF x.kind = "Infinity" THEN (IF y.kind = "Infinity" THEN NaN ELSE Infinity)
  ELSE IF y.kind = "Infinity" THEN FInt(0)
  ELSE IF FIsZero(y) THEN (IF FIsZero(x) THEN NaN ELSE Infinity)
  ELSE IF FIsZero(x) THEN FInt(0)
  ELSE DivRounded(BigDivSmall(BigShl(x.m, MantissaBits + LimbBits), FSmallInt(y)),
                  x.e - (MantissaBits + LimbBits))

\* x <= y for finite doubles
FLeq(x, y) ==
  IF FIsZero(x) THEN TRUE
  ELSE IF FIsZero(y) THEN FALSE
  ELSE LET e == IF x.e < y.e THEN x.e ELSE y.e
       IN  BigLeq(BigShl(x.m, x.e - e), BigShl(y.m, y.e - e))

(***************************************************************************)
(* Bounds of the model.                                                    *)
(***************************************************************************)
\* longest review list the store holds
MaxReviews == 3

\* review ids the store hands out
MaxReviewIds == 2
\* requests the reviews page sends
MaxRequests == 2
\* applications the store holds
MaxApps == 2
\* requests the pages of My OAuth Apps send
MaxRegenerations == 2
\* attempts of the issuer at a client id that is not taken
MaxAttempts == 2
MaxFeatures == 2
\* confirmations of a subscription, and openings of the subscribe dialog
MaxConfirmations == 2
MaxOpenings == 3

VARIABLES
  dbReviews,     \* the store: the application's review rows, in insertion order
  nextReviewId,  \* the store: the id of the next review row
  sessionUser,   \* the user the browser session is authenticated as
  reviews,       \* query ['/api/oauth-apps', id, 'reviews']: [loaded, data]
  userReview,    \* query ['/api/oauth-apps', id, 'reviews', 'user']: [loaded, data]
  reviewStats,   \* OAuthAppReviews when mounted: <<what calculateReviewStats returned>>
  detailStats,   \* OAuthAppDetails when mounted: <<its averageRating and ratingCounts>>
  showReviewDialog,
  showDeleteDialog,
  selectedReview,         \* <<>> for null, <<review>> otherwise
  isEditing,
  dialogOpenedBy,         \* the button that opened the review dialog shown: [by, reviewId]
  formData,               \* [rating, reviewText]
  submitReviewMutation,   \* [isPending, request, reply]
  updateReviewMutation,
  deleteReviewMutation,
  toast,                  \* the last notification
  requestsSent,           \* the number of mutations the page has started
  dbApps,        \* the store: the application rows, in insertion order
  response,      \* the last response of POST /api/oauth-apps
  myApps,        \* My OAuth Apps, query ['/api/oauth-apps']: [loaded, data]
  selectedApp,   \* <<>> for null, otherwise <<app>>, by the fields the page reads
  showRegenerateCredentialsDialog,
  regenerateCredentialsMutation,   \* [isPending, request, reply]
  appsToast,     \* the last notification of My OAuth Apps
  otherRegeneration,   \* the regenerateCredentialsMutation of a second page of the user
  regenerationsSent,   \* the number of mutations the two pages have started
  statsTab,      \* My OAuth Apps, Stats tab: <<>> or <<what the Average Rating card shows>>
  appCard,       \* the marketplace: <<>> or <<what the AppCard of the application shows>>
  showNewAppDialog,
  appFormData,        \* formData of My OAuth Apps: the form of the new application
  createAppMutation,  \* [isPending, request, reply]
  showAppDeleteDialog,   \* showDeleteDialog of My OAuth Apps
  deleteAppMutation,     \* [isPending, request, reply]
  dbRecords,     \* the store: the rows that reference an application, [table, id, appId]
  dbPlans,       \* the store: the pricing plans of the application of the plans page
  pricingPlans,  \* Pricing Plans, query ['/api/oauth-apps', id, 'pricing-plans']: [loaded]
  showAddPlanDialog,
  showEditPlanDialog,
  selectedPlan,  \* <<>> for null, otherwise <<plan>>, by the field the page reads
  planFormData,  \* formData of Pricing Plans
  createPlanMutation,   \* [isPending, request, reply]
  updatePlanMutation,
  planRequestsSent,     \* the number of mutations the plans page has started
  planToast,     \* the last notification of Pricing Plans
  showPlanDeleteDialog,   \* showDeleteDialog of Pricing Plans
  deletePlanMutation,     \* [isPending, request, reply]
  req,           \* the last request of GET / or POST /: <<>> or <<Request(...)>>
  storageCalls,  \* the operations of the storage that its handling invoked
  subscribePlan,        \* selectedPlan of OAuthAppDetails: <<>> for null, else <<plan id>>
  showSubscribeDialog,
  subscribeOpenings,    \* how often the subscribe dialog was opened
  subscribeTimeouts,    \* the pending setTimeout callbacks, in the order they were set
  subscribeToasts,      \* the notifications of OAuthAppDetails, in the order they were raised
  showSecrets    \* showSecrets of My OAuth Apps: the flag of each application id

\* the applications and the pages of My OAuth Apps
appsVars == <<dbApps, response, myApps, selectedApp,
              showRegenerateCredentialsDialog, regenerateCredentialsMutation, appsToast,
              otherRegeneration, regenerationsSent>>
\* what only the confirmations of a regeneration change
regenerationVars == <<regenerateCredentialsMutation, otherRegeneration, regenerationsSent>>
\* what the Stats tab and the marketplace card show
displayVars == <<statsTab, appCard>>
\* what neither the reviews page nor the credentials change
\* the New App dialog of My OAuth Apps
newAppVars == <<showNewAppDialog, appFormData, createAppMutation>>
\* the Delete OAuth App dialog of My OAuth Apps, and the rows a delete cascades to
deleteAppVars == <<showAppDeleteDialog, deleteAppMutation, dbRecords>>
\* the page of the pricing plans
planStoreVars == <<dbPlans, pricingPlans>>
planDialogVars == <<showAddPlanDialog, showEditPlanDialog, selectedPlan>>
planMutationVars == <<createPlanMutation, updatePlanMutation, planRequestsSent>>
\* the Delete Pricing Plan dialog
planDeleteVars == <<showPlanDeleteDialog, deletePlanMutation>>
plansVars == <<planStoreVars, planDialogVars, planFormData, planMutationVars, planToast,
               planDeleteVars>>
\* the last request of the routes and the storage calls made for it
routeVars == <<req, storageCalls>>
\* the subscribe dialog of OAuthAppDetails
subscribeVars == <<subscribePlan, showSubscribeDialog, subscribeOpenings, subscribeTimeouts,
                   subscribeToasts>>
\* the subscribe dialog and the visibility of the client secrets
detailVars == <<subscribeVars, showSecrets>>
restVars == <<displayVars, newAppVars, deleteAppVars, plansVars, routeVars, detailVars>>
\* what no action of the reviews changes
fixedVars == <<sessionUser, appsVars, restVars>>
pageVars == <<reviewStats, detailStats>>
formVars == <<showReviewDialog, showDeleteDialog, selectedReview, isEditing, formData,
              dialogOpenedBy>>
mutationVars == <<submitReviewMutation, updateReviewMutation, deleteReviewMutation>>
\* the state of the reviews page that the statistics do not read
reviewUiVars == <<nextReviewId, fixedVars, userReview, formVars, mutationVars, toast,
                  requestsSent>>
vars == <<dbReviews, reviews, pageVars, reviewUiVars>>
\* what no action of the applications changes
reviewsVars == <<dbReviews, reviews, pageVars, nextReviewId, sessionUser, userReview,
                 formVars, mutationVars, toast, requestsSent, restVars>>
\* what the routes leave alone, but for the pages of the applications
exceptRoutes == <<dbReviews, reviews, pageVars, nextReviewId, sessionUser, userReview,
                  formVars, mutationVars, toast, requestsSent, displayVars, newAppVars,
                  deleteAppVars, plansVars, detailVars>>

(***************************************************************************)
(* Review statistics: OAuthAppReviews.calculateReviewStats and the same    *)
(* computation inlined in OAuthAppDetails.                                 *)
(***************************************************************************)
Stars == 5

\* !reviews?.length
NoLengthMutant(q) == ~q.loaded
NoLength(q) == ~q.loaded \/ Len(q.data) = 0

\* reviews.reduce((sum, review) => sum + review.rating, 0)
RECURSIVE reduceSum(_)
reduceSum(rs) ==
  IF rs = <<>> THEN FInt(0)
  ELSE FAdd(reduceSum(SubSeq(rs, 1, Len(rs) - 1)), FInt(rs[Len(rs)].rating))

\* review.rating > 0 && review.rating <= 5
CountedMutant(rating) == rating > 1 /\ rating <= Stars
Counted(rating) == rating > 0 /\ rating <= Stars

\* the slot a rating is counted in: ratingCounts[5 - review.rating]
SlotOfMutant(rating) == rating - 1
SlotOf(rating) == Stars - rating

\* reviews.forEach(review => { if (...) ratingCounts[5 - review.rating]++ }), slot i at position i + 1
RECURSIVE forEachCount(_, _)
forEachCount(rs, counts) ==
  IF rs = <<>> THEN counts
  ELSE LET r == Head(rs).rating
       IN  forEachCount(Tail(rs),
                        IF Counted(r) THEN [counts EXCEPT ![SlotOf(r) + 1] = @ + 1]
                        ELSE counts)

ZeroCounts == [i \in 1..Stars |-> 0]

calculateReviewStats(q) ==
  IF NoLength(q)
  THEN [averageRating |-> FInt(0),
        totalReviews  |-> 0,
        ratingCounts  |-> ZeroCounts,
        percentages   |-> [i \in 1..Stars |-> FInt(0)]]
  ELSE LET totalReviews  == Len(q.data)
           averageRating == FDiv(reduceSum(q.data), FInt(totalReviews))
           ratingCounts  == forEachCount(q.data, ZeroCounts)
           percentages   == [i \in 1..Stars |->
                               FMul(FDiv(FInt(ratingCounts[i]), FInt(totalReviews)), FInt(100))]
       IN  [averageRating |-> averageRating,
            totalReviews  |-> totalReviews,
            ratingCounts  |-> ratingCounts,
            percentages   |-> percentages]

\* OAuthAppDetails: its own copy of the guard and of the loop
RECURSIVE detailsForEachCount(_, _)
detailsForEachCount(rs, counts) ==
  IF rs = <<>> THEN counts
  ELSE LET r == Head(rs).rating
       IN  detailsForEachCount(Tail(rs),
                               IF r > 0 /\ r <= 5 THEN [counts EXCEPT ![5 - r + 1] = @ + 1]
                               ELSE counts)

\* OAuthAppDetails: averageRating and ratingCounts
detailsRatings(q) ==
  [averageRating |-> IF NoLength(q) THEN FInt(0)
                     ELSE FDiv(reduceSum(q.data), FInt(Len(q.data))),
   ratingCounts  |-> IF NoLength(q) THEN ZeroCounts
                     ELSE detailsForEachCount(q.data, ZeroCounts)]

(***************************************************************************)
(* The two pages over an arbitrary stored review list: ratings from one    *)
(* below the range to one above it.                                        *)
(***************************************************************************)
Ratings == 0..(Stars + 1)

\* the rows of a list of ratings, one user each
RowsOf(rs) == [i \in 1..Len(rs) |->
                 [id |-> i, userId |-> i, rating |-> rs[i], reviewText |-> ""]]

RatingLists == UNION {[1..n -> Ratings] : n \in 0..MaxReviews}

NotLoaded == [loaded |-> FALSE, data |-> <<>>]

\* useState({ rating: 5, reviewText: '' }), and resetForm
emptyForm == [rating |-> 5, reviewText |-> ""]

\* no notification yet
\* the review dialog is not shown
NotOpened == [by |-> "", reviewId |-> 0]

NoToast == [title |-> "", description |-> ""]

\* a mutation nothing was sent through
IdleMutation == [isPending |-> FALSE, request |-> <<>>, reply |-> <<>>]

\* useState({ name: '', description: '', homepageUrl: '', callbackUrl: '', logoUrl: '' }),
\* and resetForm
emptyAppForm == [name |-> "", description |-> "", homepageUrl |-> "", callbackUrl |-> "",
                 logoUrl |-> ""]

\* a number, or NaN
Number(cents) == [isNaN |-> FALSE, cents |-> cents]
NotANumber == [isNaN |-> TRUE, cents |-> 0]

\* useState({ name: '', price: 0, billingInterval: 'monthly', features: [''],
\* isPublic: true }), and resetForm
emptyPlanFormMutant ==
  [name |-> "", price |-> Number(0), billingInterval |-> "", features |-> << <<>> >>,
   isPublic |-> TRUE]
emptyPlanForm ==
  [name |-> "", price |-> Number(0), billingInterval |-> "monthly", features |-> << <<>> >>,
   isPublic |-> TRUE]

\* Pricing Plans as the component's hooks initialise it
InitPlansPage ==
  /\ pricingPlans = [loaded |-> FALSE]
  /\ showAddPlanDialog = FALSE
  /\ showEditPlanDialog = FALSE
  /\ selectedPlan = <<>>
  /\ planFormData = emptyPlanForm
  /\ createPlanMutation = IdleMutation
  /\ updatePlanMutation = IdleMutation
  /\ planRequestsSent = 0
  /\ planToast = NoToast
  /\ showPlanDeleteDialog = FALSE
  /\ deletePlanMutation = IdleMutation

\* showSecrets[appId] of an application that was never toggled
Undefined == "undefined"

\* OAuthAppDetails and showSecrets as the hooks initialise them
InitDetails ==
  /\ subscribePlan = <<>>
  /\ showSubscribeDialog = FALSE
  /\ subscribeOpenings = 0
  /\ subscribeTimeouts = <<>>
  /\ subscribeToasts = <<>>
  /\ showSecrets = [appId \in 1..MaxApps |-> Undefined]

\* My OAuth Apps as the component's hooks initialise it
InitAppsPage ==
  /\ InitDetails
  /\ response = <<>>
  /\ req = <<>>
  /\ storageCalls = <<>>
  /\ myApps = NotLoaded
  /\ selectedApp = <<>>
  /\ showRegenerateCredentialsDialog = FALSE
  /\ regenerateCredentialsMutation = IdleMutation
  /\ appsToast = NoToast
  /\ otherRegeneration = IdleMutation
  /\ regenerationsSent = 0
  /\ statsTab = <<>>
  /\ appCard = <<>>
  /\ showNewAppDialog = FALSE
  /\ appFormData = emptyAppForm
  /\ createAppMutation = IdleMutation
  /\ showAppDeleteDialog = FALSE
  /\ deleteAppMutation = IdleMutation
  /\ InitPlansPage

\* no application
InitNoApps ==
  /\ dbApps = <<>>
  /\ dbRecords = {}
  /\ dbPlans = <<>>
  /\ InitAppsPage

\* the reviews page as the component's hooks initialise it
InitReviewsPage ==
  /\ userReview = NotLoaded
  /\ showReviewDialog = FALSE
  /\ showDeleteDialog = FALSE
  /\ selectedReview = <<>>
  /\ isEditing = FALSE
  /\ dialogOpenedBy = NotOpened
  /\ formData = emptyForm
  /\ submitReviewMutation = IdleMutation
  /\ updateReviewMutation = IdleMutation
  /\ deleteReviewMutation = IdleMutation
  /\ toast = NoToast
  /\ requestsSent = 0

InitStats ==
  /\ dbReviews \in {RowsOf(rs) : rs \in RatingLists}
  /\ nextReviewId = Len(dbReviews) + 1
  /\ sessionUser = 1
  /\ reviews = NotLoaded
  /\ reviewStats = <<>>
  /\ detailStats = <<>>
  /\ InitReviewsPage
  /\ InitNoApps

\* a render of each mounted page over the query data q
Rendered(q) ==
  /\ reviewStats' = IF reviewStats = <<>> THEN <<>> ELSE <<calculateReviewStats(q)>>
  /\ detailStats' = IF detailStats = <<>> THEN <<>> ELSE <<detailsRatings(q)>>

\* the reviews query resolves with the stored rows, and the mounted pages render again
FetchReviews ==
  /\ reviews' = [loaded |-> TRUE, data |-> dbReviews]
  /\ Rendered(reviews')
  /\ UNCHANGED <<dbReviews, reviewUiVars>>

\* OAuthAppReviews is mounted and renders
MountReviews ==
  /\ reviewStats = <<>>
  /\ reviewStats' = <<calculateReviewStats(reviews)>>
  /\ UNCHANGED <<dbReviews, reviews, detailStats, reviewUiVars>>

\* OAuthAppDetails is mounted and renders
MountDetails ==
  /\ detailStats = <<>>
  /\ detailStats' = <<detailsRatings(reviews)>>
  /\ UNCHANGED <<dbReviews, reviews, reviewStats, reviewUiVars>>

NextStats == FetchReviews \/ MountReviews \/ MountDetails

SpecStats == InitStats /\ [][NextStats]_vars

(***************************************************************************)
(* Properties of the statistics.                                           *)
(***************************************************************************)
\* the list the pages were given: nothing while the query has no data
Given == IF reviews.loaded THEN reviews.data ELSE <<>>

InRange(rating) == rating \in 1..Stars
Valid == {k \in 1..Len(Given) : InRange(Given[k].rating)}
Skipped == {k \in 1..Len(Given) : ~InRange(Given[k].rating)}

RECURSIVE SumOver(_)
SumOver(ks) ==
  IF ks = {} THEN 0
  ELSE LET k == CHOOSE x \in ks : TRUE IN Given[k].rating + SumOver(ks \ {k})

RECURSIVE SumSeq(_)
SumSeq(xs) == IF xs = <<>> THEN 0 ELSE Head(xs) + SumSeq(Tail(xs))

\* the exact sum of doubles, as m * 2^e
RECURSIVE ExactSum(_)
ExactSum(xs) ==
  IF xs = <<>> THEN [m |-> <<>>, e |-> 0]
  ELSE LET x == Head(xs)
           t == ExactSum(Tail(xs))
           e == IF x.e < t.e THEN x.e ELSE t.e
       IN  [m |-> BigAdd(BigShl(x.m, x.e - e), BigShl(t.m, t.e - e)), e |-> e]

\* |m * 2^e - n| <= 2^k for an exact sum, an integer n and k <= 0
Within(d, n, k) ==
  LET e   == IF d.e < k THEN d.e ELSE k
      a   == BigShl(d.m, d.e - e)
      b   == BigShl(BigOf(n), 0 - e)
      tol == BigShl(<<1>>, k - e)
  IN  BigLeq(a, BigAdd(b, tol)) /\ BigLeq(b, BigAdd(a, tol))

ExactlyInt(d, n) == BigShl(d.m, d.e - (IF d.e < 0 THEN d.e ELSE 0))
                      = BigShl(BigOf(n), 0 - (IF d.e < 0 THEN d.e ELSE 0))

\* 2^RoundingExp: four units in the last place of a double near 100
RoundingExp == 0 - 44

ExactTimes(x, n) == [m |-> BigMulSmall(x.m, n, 0), e |-> x.e]

AllInRange == Given # <<>> /\ \A k \in 1..Len(Given) : InRange(Given[k].rating)

ZeroStats ==
  [averageRating |-> FInt(0), totalReviews |-> 0,
   ratingCounts  |-> <<0, 0, 0, 0, 0>>,
   percentages   |-> <<FInt(0), FInt(0), FInt(0), FInt(0), FInt(0)>>]

\* C5, as claimed: ratings outside [1,5] are excluded from every count of the
\* summary: the total is the number of in-range ratings, the average is their
\* mean (0 when there is none) and each histogram slot counts in-range ratings only.
C5_OutOfRangeExcluded ==
  reviewStats # <<>> =>
    LET s == reviewStats[1]
    IN  /\ s.totalReviews = Cardinality(Valid)
        /\ s.averageRating = IF Valid = {} THEN FInt(0)
                             ELSE FDiv(FInt(SumOver(Valid)), FInt(Cardinality(Valid)))
        /\ \A i \in 0..(Stars - 1) :
             s.ratingCounts[i + 1] = Cardinality({k \in Valid : Given[k].rating = Stars - i})

\* C6, as claimed: the summary reports a count "skipped" of the entries whose
\* rating is outside [1,5], and total + skipped is the length of the list.
C6_SkippedReported ==
  reviewStats # <<>> =>
    LET s == reviewStats[1]
    IN  /\ "skipped" \in DOMAIN s
        /\ s.skipped = Cardinality(Skipped)
        /\ s.totalReviews + s.skipped = Len(Given)

\* C7, as claimed: for a non-empty list of ratings all in [1,5] the histogram
\* sums to the total, the total is the length of the list, and the five
\* percentages sum to 100.
C7_PercentagesSumTo100 ==
  (reviewStats # <<>> /\ AllInRange) =>
    LET s == reviewStats[1]
    IN  /\ SumSeq(s.ratingCounts) = s.totalReviews
        /\ s.totalReviews = Len(Given)
        /\ ExactlyInt(ExactSum(s.percentages), 100)

\* C7, amended: for a non-empty list of ratings all in [1,5] the histogram sums
\* to the total, the total is the length of the list, and the sum of the five
\* percentages is 100 up to the rounding of doubles: it differs from 100 by at
\* most 2^-44.
C7_HistogramTotalPercentages ==
  (reviewStats # <<>> /\ AllInRange) =>
    LET s == reviewStats[1]
    IN  /\ SumSeq(s.ratingCounts) = s.totalReviews
        /\ s.totalReviews = Len(Given)
        /\ Within(ExactSum(s.percentages), 100, RoundingExp)

\* three in-range ratings whose percentages are rounded: the sum is not exactly 100
C7_Witness ==
  /\ reviewStats # <<>>
  /\ AllInRange
  /\ Len(Given) = 3
  /\ ~ExactlyInt(ExactSum(reviewStats[1].percentages), 100)
  /\ Within(ExactSum(reviewStats[1].percentages), 100, RoundingExp)

\* C8: for the empty list, and while the list is absent, the summary is average 0,
\* total 0, histogram [0,0,0,0,0] and percentages [0,0,0,0,0]; the average of
\* either page is never NaN.
C8_EmptySummaryZero ==
  /\ (reviewStats # <<>> /\ Given = <<>>) => reviewStats[1] = ZeroStats
  /\ reviewStats # <<>> => reviewStats[1].averageRating.kind = "num"
  /\ (detailStats # <<>> /\ Given = <<>>) => detailStats[1].averageRating = FInt(0)
  /\ detailStats # <<>> => detailStats[1].averageRating.kind = "num"

\* the reviews page rendered over a loaded, empty list
C8_Witness ==
  /\ reviewStats # <<>>
  /\ reviews.loaded
  /\ reviews.data = <<>>
  /\ reviewStats[1] = ZeroStats

\* C9: histogram slot i (0..4) is the number of reviews whose rating is exactly
\* 5 - i, and the reviews page and the details page compute the same histogram.
C9_HistogramSlots ==
  /\ reviewStats # <<>> =>
       \A i \in 0..(Stars - 1) :
         reviewStats[1].ratingCounts[i + 1]
           = Cardinality({k \in 1..Len(Given) : Given[k].rating = Stars - i})
  /\ (reviewStats # <<>> /\ detailStats # <<>>) =>
       detailStats[1].ratingCounts = reviewStats[1].ratingCounts

\* both pages rendered over a 5-star, a 1-star and an out-of-range rating
C9_Witness ==
  /\ reviewStats # <<>>
  /\ detailStats # <<>>
  /\ \E a, b, c \in 1..Len(Given) :
       Given[a].rating = 5 /\ Given[b].rating = 1 /\ ~InRange(Given[c].rating)
  /\ reviewStats[1].ratingCounts = <<1, 0, 0, 0, 1>>

\* C10, as claimed: when total > 0, percentages[i] * total = histogram[i] * 100
\* for each slot and average * total is the sum of the counted (in-range)
\* ratings; the list of ratings 5 and 1 gives average 3, histogram [1,0,0,0,1]
\* and percentages [50,0,0,0,50].
C10_PercentagesAndAverage ==
  (reviewStats # <<>> /\ reviewStats[1].totalReviews > 0) =>
    LET s == reviewStats[1]
    IN  /\ \A i \in 1..Stars :
             ExactlyInt(ExactTimes(s.percentages[i], s.totalReviews), s.ratingCounts[i] * 100)
        /\ ExactlyInt(ExactTimes(s.averageRating, s.totalReviews), SumOver(Valid))
        /\ (Len(Given) = 2 /\ Given[1].rating = 5 /\ Given[2].rating = 1) =>
             /\ s.averageRating = FInt(3)
             /\ s.ratingCounts = <<1, 0, 0, 0, 1>>
             /\ s.percentages = <<FInt(50), FInt(0), FInt(0), FInt(0), FInt(50)>>


(***************************************************************************)
(* The review endpoints.  The routes of the reviews and the store are not  *)
(* part of the source tree; they follow the Rating Aggregator contract of  *)
(* the specification: validateSubmission before the store inserts a row,   *)
(* validateEdit before it updates one, edit and delete by the author only.  *)
(***************************************************************************)
\* const currentUserId = 1
currentUserId == 1

\* the users of the marketplace: the one the page takes as the current user, and another
Users == {currentUserId, currentUserId + 1}

\* a reviewText of null
Null == "(null)"

\* existingReviews already contains an entry with the same userId
HasReviewByMutant(existing, userId) == FALSE
HasReviewBy(existing, userId) == \E k \in 1..Len(existing) : existing[k].userId = userId

\* null or absent text becomes the empty string
normalizeText(text) == IF text = Null THEN "" ELSE text

validateSubmission(existingReviews, candidate) ==
  IF HasReviewBy(existingReviews, candidate.userId)
  THEN [error |-> "DuplicateReviewError", record |-> candidate]
  ELSE IF candidate.rating \notin 1..5
  THEN [error |-> "InvalidRatingError", record |-> candidate]
  ELSE [error |-> "", record |-> [candidate EXCEPT !.text = normalizeText(@)]]

validateEdit(existingReview, newRating, newText) ==
  IF newRating \notin 1..5
  THEN [error |-> "InvalidRatingError", record |-> existingReview]
  ELSE [error |-> "",
        record |-> [existingReview EXCEPT !.rating = newRating,
                                          !.reviewText = normalizeText(newText)]]

\* the positions of the rows with this id
RowsWithId(reviewId) == {k \in 1..Len(dbReviews) : dbReviews[k].id = reviewId}

\* the store without the row at position k
RemoveAt(rows, k) == SubSeq(rows, 1, k - 1) \o SubSeq(rows, k + 1, Len(rows))

\* POST /apps/{id}/reviews for a user: the rows afterwards, the next id and the reply
postReview(userId, data) ==
  LET result == validateSubmission(dbReviews,
                  [userId |-> userId, rating |-> data.rating, text |-> data.reviewText])
  IN  IF result.error = ""
      THEN [rows  |-> Append(dbReviews, [id         |-> nextReviewId,
                                         userId     |-> result.record.userId,
                                         rating     |-> result.record.rating,
                                         reviewText |-> result.record.text]),
            next  |-> nextReviewId + 1,
            reply |-> [error |-> ""]]
      ELSE [rows |-> dbReviews, next |-> nextReviewId, reply |-> [error |-> result.error]]

\* PUT /reviews/{reviewId} for a user: the rows afterwards and the reply
putReview(userId, reviewId, data) ==
  IF RowsWithId(reviewId) = {}
  THEN [rows |-> dbReviews, reply |-> [error |-> "NotFound"]]
  ELSE LET k      == CHOOSE x \in RowsWithId(reviewId) : TRUE
           result == validateEdit(dbReviews[k], data.rating, data.reviewText)
       IN  IF dbReviews[k].userId # userId
           THEN [rows |-> dbReviews, reply |-> [error |-> "Forbidden"]]
           ELSE IF result.error # ""
           THEN [rows |-> dbReviews, reply |-> [error |-> result.error]]
           ELSE [rows  |-> [dbReviews EXCEPT ![k] = result.record],
                 reply |-> [error |-> ""]]

\* DELETE /reviews/{reviewId} for a user: the rows afterwards and the reply
deleteReview(userId, reviewId) ==
  IF RowsWithId(reviewId) = {}
  THEN [rows |-> dbReviews, reply |-> [error |-> "NotFound"]]
  ELSE LET k == CHOOSE x \in RowsWithId(reviewId) : TRUE
       IN  IF dbReviews[k].userId # userId
           THEN [rows |-> dbReviews, reply |-> [error |-> "Forbidden"]]
           ELSE [rows |-> RemoveAt(dbReviews, k), reply |-> [error |-> ""]]

\* GET /apps/{id}/reviews/user: the review of the user, or nothing
ownReview(userId) ==
  LET mine == {k \in 1..Len(dbReviews) : dbReviews[k].userId = userId}
  IN  IF mine = {} THEN <<>>
      ELSE <<dbReviews[CHOOSE k \in mine : \A j \in mine : k <= j]>>


(***************************************************************************)
(* OAuthAppReviews: the page of one application in one browser session.    *)
(***************************************************************************)
\* the stars clicked, the lowest and the highest of [1, 2, 3, 4, 5], and the texts typed
StarButtons == {1, Stars}
Texts == {"", "good"}

storeVars == <<dbReviews, nextReviewId, fixedVars>>
\* what only handleSubmit and confirmDelete change
sentVars == <<mutationVars, requestsSent>>
queryVars == <<reviews, userReview>>

\* !userReview is false
HasUserReview == userReview.loaded /\ userReview.data # <<>>

\* both dialogs are modal: the buttons of the page need them closed
NoDialog == ~showReviewDialog /\ ~showDeleteDialog

\* mutate(request)
Sent(request) == [isPending |-> TRUE, request |-> <<request>>, reply |-> <<>>]

\* a request of the mutation is on its way to the server
InFlight(mutation) == mutation.isPending /\ mutation.reply = <<>>

\* the reply of the mutation has arrived, its callback has not run
Replied(mutation) == mutation.isPending /\ mutation.reply # <<>>

\* "Write a Review" in the header and in the empty list, "Add Your Review" in the footer
WriteAReview ==
  /\ NoDialog
  /\ ~HasUserReview \/ (reviews.loaded /\ Len(reviews.data) = 0)
  /\ showReviewDialog' = TRUE
  /\ dialogOpenedBy' = [by |-> "write", reviewId |-> 0]
  /\ UNCHANGED <<storeVars, queryVars, pageVars, sentVars, toast,
                 showDeleteDialog, selectedReview, isEditing, formData>>

\* review.reviewText || ''
orEmptyMutant(reviewText) == reviewText
orEmpty(reviewText) == IF reviewText \in {Null, ""} THEN "" ELSE reviewText

handleEdit(review) ==
  /\ selectedReview' = <<review>>
  /\ formData' = [rating     |-> review.rating,
                  reviewText |-> orEmpty(review.reviewText)]
  /\ isEditing' = TRUE
  /\ showReviewDialog' = TRUE
  /\ dialogOpenedBy' = [by |-> "edit", reviewId |-> review.id]
  /\ UNCHANGED <<storeVars, queryVars, pageVars, sentVars, toast, showDeleteDialog>>

\* "Edit Your Review" in the header
EditYourReview ==
  /\ NoDialog
  /\ HasUserReview
  /\ handleEdit(userReview.data[1])

\* "Edit" under a listed review of the current user
EditListed ==
  \E k \in 1..Len(reviews.data) :
    /\ NoDialog
    /\ reviews.loaded
    /\ reviews.data[k].userId = currentUserId
    /\ handleEdit(reviews.data[k])

\* "Delete" under a listed review of the current user
handleDelete ==
  \E k \in 1..Len(reviews.data) :
    /\ NoDialog
    /\ reviews.loaded
    /\ reviews.data[k].userId = currentUserId
    /\ selectedReview' = <<reviews.data[k]>>
    /\ showDeleteDialog' = TRUE
    /\ UNCHANGED <<storeVars, queryVars, pageVars, sentVars, toast,
                   showReviewDialog, isEditing, formData, dialogOpenedBy>>

\* the review dialog is dismissed: onOpenChange(false)
DismissReviewDialog ==
  /\ showReviewDialog
  /\ showReviewDialog' = FALSE
  /\ dialogOpenedBy' = NotOpened
  /\ UNCHANGED <<storeVars, queryVars, pageVars, sentVars, toast,
                 showDeleteDialog, selectedReview, isEditing, formData>>

\* "Cancel" in the review dialog
CancelReviewDialog ==
  /\ showReviewDialog
  /\ showReviewDialog' = FALSE
  /\ isEditing' = FALSE
  /\ formData' = emptyForm
  /\ dialogOpenedBy' = NotOpened
  /\ UNCHANGED <<storeVars, queryVars, pageVars, sentVars, toast,
                 showDeleteDialog, selectedReview>>

\* "Cancel" in the delete dialog, or the dialog is dismissed
CloseDeleteDialog ==
  /\ showDeleteDialog
  /\ showDeleteDialog' = FALSE
  /\ UNCHANGED <<storeVars, queryVars, pageVars, sentVars, toast,
                 showReviewDialog, selectedReview, isEditing, formData, dialogOpenedBy>>

handleRatingChange ==
  \E star \in StarButtons :
    /\ showReviewDialog
    /\ formData' = [formData EXCEPT !.rating = star]
    /\ UNCHANGED <<storeVars, queryVars, pageVars, sentVars, toast,
                   showReviewDialog, showDeleteDialog, selectedReview, isEditing,
                   dialogOpenedBy>>

handleInputChange ==
  \E value \in Texts :
    /\ showReviewDialog
    /\ formData' = [formData EXCEPT !.reviewText = value]
    /\ UNCHANGED <<storeVars, queryVars, pageVars, sentVars, toast,
                   showReviewDialog, showDeleteDialog, selectedReview, isEditing,
                   dialogOpenedBy>>

\* disabled={submitReviewMutation.isPending || updateReviewMutation.isPending}
submitDisabledMutant == FALSE
submitDisabled == submitReviewMutation.isPending \/ updateReviewMutation.isPending

\* the form is submitted; its button is disabled while a submit or an update is pending
handleSubmit ==
  /\ showReviewDialog
  /\ ~submitDisabled
  /\ IF isEditing /\ selectedReview # <<>>
     THEN /\ updateReviewMutation' = Sent([reviewId |-> selectedReview[1].id, data |-> formData])
          /\ UNCHANGED submitReviewMutation
     ELSE /\ submitReviewMutation' = Sent(formData)
          /\ UNCHANGED updateReviewMutation
  /\ requestsSent < MaxRequests
  /\ requestsSent' = requestsSent + 1
  /\ UNCHANGED <<storeVars, queryVars, pageVars, formVars, deleteReviewMutation, toast>>

\* "Delete Review"; the button is disabled while a delete is pending
confirmDelete ==
  /\ showDeleteDialog
  /\ ~deleteReviewMutation.isPending
  /\ requestsSent < MaxRequests
  /\ IF selectedReview # <<>>
     THEN /\ deleteReviewMutation' = Sent(selectedReview[1].id)
          /\ requestsSent' = requestsSent + 1
     ELSE UNCHANGED <<deleteReviewMutation, requestsSent>>
  /\ UNCHANGED <<storeVars, queryVars, pageVars, formVars,
                 submitReviewMutation, updateReviewMutation, toast>>

\* the server handles the POST of the session's user
HandlePostReview ==
  /\ InFlight(submitReviewMutation)
  /\ LET out == postReview(sessionUser, submitReviewMutation.request[1])
     IN  /\ out.next <= MaxReviewIds + 1
         /\ dbReviews' = out.rows
         /\ nextReviewId' = out.next
         /\ submitReviewMutation' = [submitReviewMutation EXCEPT !.reply = <<out.reply>>]
  /\ UNCHANGED <<fixedVars, queryVars, pageVars, formVars,
                 updateReviewMutation, deleteReviewMutation, toast, requestsSent>>

\* the server handles the PUT of the session's user
HandlePutReview ==
  /\ InFlight(updateReviewMutation)
  /\ LET request == updateReviewMutation.request[1]
         out     == putReview(sessionUser, request.reviewId, request.data)
     IN  /\ dbReviews' = out.rows
         /\ updateReviewMutation' = [updateReviewMutation EXCEPT !.reply = <<out.reply>>]
  /\ UNCHANGED <<nextReviewId, fixedVars, queryVars, pageVars, formVars,
                 submitReviewMutation, deleteReviewMutation, toast, requestsSent>>

\* the server handles the DELETE of the session's user
HandleDeleteReview ==
  /\ InFlight(deleteReviewMutation)
  /\ LET out == deleteReview(sessionUser, deleteReviewMutation.request[1])
     IN  /\ dbReviews' = out.rows
         /\ deleteReviewMutation' = [deleteReviewMutation EXCEPT !.reply = <<out.reply>>]
  /\ UNCHANGED <<nextReviewId, fixedVars, queryVars, pageVars, formVars,
                 submitReviewMutation, updateReviewMutation, toast, requestsSent>>

\* toast({ title, description })
Toast(title, description) == [title |-> title, description |-> description]

\* onError: error.message || fallback
ErrorToast(reply, fallback) ==
  Toast("Error", IF reply.error = "" THEN fallback ELSE reply.error)

\* submitReviewMutation settles: onSuccess or onError.  The invalidated queries are
\* fetched again by FetchReviews and FetchUserReview.
SubmitSettled ==
  /\ Replied(submitReviewMutation)
  /\ submitReviewMutation' = IdleMutation
  /\ IF submitReviewMutation.reply[1].error = ""
     THEN /\ showReviewDialog' = FALSE
          /\ formData' = emptyForm
          /\ toast' = Toast("Review Submitted", "Your review has been submitted successfully")
          /\ dialogOpenedBy' = NotOpened
          /\ UNCHANGED <<showDeleteDialog, selectedReview, isEditing>>
     ELSE /\ toast' = ErrorToast(submitReviewMutation.reply[1], "Failed to submit review")
          /\ UNCHANGED formVars
  /\ UNCHANGED <<storeVars, queryVars, pageVars, updateReviewMutation, deleteReviewMutation,
                 requestsSent>>

\* updateReviewMutation settles
UpdateSettled ==
  /\ Replied(updateReviewMutation)
  /\ updateReviewMutation' = IdleMutation
  /\ IF updateReviewMutation.reply[1].error = ""
     THEN /\ showReviewDialog' = FALSE
          /\ isEditing' = FALSE
          /\ formData' = emptyForm
          /\ toast' = Toast("Review Updated", "Your review has been updated successfully")
          /\ dialogOpenedBy' = NotOpened
          /\ UNCHANGED <<showDeleteDialog, selectedReview>>
     ELSE /\ toast' = ErrorToast(updateReviewMutation.reply[1], "Failed to update review")
          /\ UNCHANGED formVars
  /\ UNCHANGED <<storeVars, queryVars, pageVars, submitReviewMutation, deleteReviewMutation,
                 requestsSent>>

\* deleteReviewMutation settles
DeleteSettled ==
  /\ Replied(deleteReviewMutation)
  /\ deleteReviewMutation' = IdleMutation
  /\ IF deleteReviewMutation.reply[1].error = ""
     THEN /\ showDeleteDialog' = FALSE
          /\ selectedReview' = <<>>
          /\ toast' = Toast("Review Deleted", "Your review has been deleted")
          /\ UNCHANGED <<showReviewDialog, isEditing, formData, dialogOpenedBy>>
     ELSE /\ toast' = ErrorToast(deleteReviewMutation.reply[1], "Failed to delete review")
          /\ UNCHANGED formVars
  /\ UNCHANGED <<storeVars, queryVars, pageVars, submitReviewMutation, updateReviewMutation,
                 requestsSent>>

\* the query of the user's own review resolves
FetchUserReview ==
  /\ userReview' = [loaded |-> TRUE, data |-> ownReview(sessionUser)]
  /\ UNCHANGED <<storeVars, reviews, pageVars, formVars, sentVars, toast>>

\* another user's session posts a review of the application, without a text
OtherUserPosts ==
  \E userId \in Users \ {sessionUser}, star \in StarButtons :
    LET out == postReview(userId, [rating |-> star, reviewText |-> ""])
    IN  /\ out.next <= MaxReviewIds + 1
        /\ dbReviews' = out.rows
        /\ nextReviewId' = out.next
        /\ UNCHANGED <<fixedVars, queryVars, pageVars, formVars, sentVars, toast>>

InitReviews ==
  /\ dbReviews = <<>>
  /\ nextReviewId = 1
  /\ sessionUser \in Users
  /\ reviews = NotLoaded
  /\ reviewStats = <<>>
  /\ detailStats = <<>>
  /\ InitReviewsPage
  /\ InitNoApps

NextReviews ==
  \/ FetchReviews \/ FetchUserReview
  \/ WriteAReview \/ EditYourReview \/ EditListed \/ handleDelete
  \/ DismissReviewDialog \/ CancelReviewDialog \/ CloseDeleteDialog
  \/ handleRatingChange \/ handleInputChange
  \/ handleSubmit \/ confirmDelete
  \/ HandlePostReview \/ HandlePutReview \/ HandleDeleteReview
  \/ SubmitSettled \/ UpdateSettled \/ DeleteSettled
  \/ OtherUserPosts

SpecReviews == InitReviews /\ [][NextReviews]_vars


(***************************************************************************)
(* Properties of the stored reviews.                                       *)
(***************************************************************************)
\* the positions of the stored reviews of a user
StoredBy(userId) == {k \in 1..Len(dbReviews) : dbReviews[k].userId = userId}

OneReviewPerUser == \A userId \in Users : Cardinality(StoredBy(userId)) <= 1

\* a POST of a user who has a stored review adds no row and is answered as a duplicate
SecondSubmissionRejected ==
  HandlePostReview /\ StoredBy(sessionUser) # {}
    => /\ dbReviews' = dbReviews
       /\ submitReviewMutation'.reply = <<[error |-> "DuplicateReviewError"]>>

\* C1: whatever the page submits, edits and deletes, also while the query of the user's
\* own review is loading or stale, the store holds at most one review per user, and a
\* second submission of a user is rejected as a duplicate without adding a row.
C1_OneReviewPerUser == []OneReviewPerUser /\ [][SecondSubmissionRejected]_vars

\* the page showed "Write a Review" over a query that did not know the stored review of
\* the user, the form was submitted, and the reply is the duplicate error
C1_Witness ==
  /\ StoredBy(sessionUser) # {}
  /\ ~HasUserReview
  /\ Replied(submitReviewMutation)
  /\ submitReviewMutation.reply[1].error = "DuplicateReviewError"


(***************************************************************************)
(* The Credential Issuer and the store of the applications.  The store and *)
(* the route of the credentials are not part of the source tree; they      *)
(* follow the specification: issue and regenerate draw a client id that is *)
(* not in existingClientIds, retrying a bounded number of times, and the    *)
(* store replaces the stored pair in one step.                              *)
(***************************************************************************)
\* clientId: string | null, clientSecret: string | null
NullToken == Null

\* the opaque tokens the random source yields: few enough for client ids to collide
ClientIds == {"id-a", "id-b", "id-c"}
Secrets == {"secret-a", "secret-b"}

\* the client ids of the stored applications
existingClientIdsMutant(apps) == {}
existingClientIds(apps) ==
  {apps[k].clientId : k \in 1..Len(apps)} \ {NullToken}

\* issue(existingClientIds) over the values its random source yields: one client id
\* per attempt, and the secret
issue(existing, draws, secret) ==
  LET fresh == {n \in 1..MaxAttempts : draws[n] \notin existing}
  IN  IF fresh = {}
      THEN [error |-> "ExhaustedRetriesError",
            pair  |-> [clientId |-> NullToken, clientSecret |-> NullToken]]
      ELSE [error |-> "",
            pair  |-> [clientId     |-> draws[CHOOSE n \in fresh : \A m \in fresh : n <= m],
                       clientSecret |-> secret]]

\* regenerate(applicationId, existingClientIds): the generation contract of issue
regenerate(applicationId, existing, draws, secret) == issue(existing, draws, secret)

\* the store replaces the pair of the application at position k in one step
replaceCredentialsTorn(apps, k, pair) == [apps EXCEPT ![k].clientId = pair.clientId]
replaceCredentialsKept(apps, k, pair) == apps
replaceCredentials(apps, k, pair) ==
  [apps EXCEPT ![k].clientId = pair.clientId, ![k].clientSecret = pair.clientSecret]

\* the positions of the applications with this id
AppsWithId(appId) == {k \in 1..Len(dbApps) : dbApps[k].id = appId}

\* POST /apps/{id}/credentials: the rows afterwards and the reply, which echoes the pair
applyResult(k, result) ==
  IF result.error # ""
  THEN [rows |-> dbApps, reply |-> [error |-> result.error]]
  ELSE [rows  |-> replaceCredentials(dbApps, k, result.pair),
        reply |-> [error |-> "", pair |-> result.pair]]

postCredentials(appId, draws, secret) ==
  IF AppsWithId(appId) = {}
  THEN [rows |-> dbApps, reply |-> [error |-> "NotFound"]]
  ELSE applyResult(CHOOSE k \in AppsWithId(appId) : TRUE,
                   regenerate(appId, existingClientIds(dbApps), draws, secret))

\* storage.createOAuthApp: the row of a new application, its credentials not issued yet
createOAuthApp(app) ==
  [id           |-> Len(dbApps) + 1,
   userId       |-> app.userId,
   name         |-> app.name,
   description  |-> app.description,
   homepageUrl  |-> app.homepageUrl,
   callbackUrl  |-> app.callbackUrl,
   logoUrl      |-> app.logoUrl,
   clientId     |-> NullToken,
   clientSecret |-> NullToken]

\* storage.getUserOAuthApps
getUserOAuthApps(userId) == SelectSeq(dbApps, LAMBDA app : app.userId = userId)

(***************************************************************************)
(* oauthAppRoutes: POST / of a request with or without a session.          *)
(***************************************************************************)
\* a request without an authenticated user
Anonymous == 0

\* !req.isAuthenticated() || !req.user is false
requireAuthMutant(user) == TRUE
requireAuth(user) == user # Anonymous

\* the absolute URLs among the texts of the requests, and a text without a scheme
AbsoluteUrls == {"https://app.example", "https://app.example/callback"}
RelativeUrl == "app.example/callback"

Bodies == [name        : {"", "App"},
           description : {"", "An application"},
           homepageUrl : {"", "https://app.example", RelativeUrl},
           callbackUrl : {"", "https://app.example/callback", RelativeUrl},
           logoUrl     : {""}]

\* the body with every required field and absolute URLs
CompleteBody == [name |-> "App", description |-> "An application",
                 homepageUrl |-> "https://app.example",
                 callbackUrl |-> "https://app.example/callback", logoUrl |-> ""]

Status(code, message) == [status |-> code, message |-> message]

\* !name || !description || !homepageUrl || !callbackUrl
FieldsMissingMutant(body) == body.name = ""
FieldsMissing(body) ==
  body.name = "" \/ body.description = "" \/ body.homepageUrl = "" \/ body.callbackUrl = ""

\* catch (error) of POST /
catchPostMutant == Status(201, "")
catchPost == Status(500, "Failed to create OAuth app")

\* req of a request without a body
NoBody == [name |-> "", description |-> "", homepageUrl |-> "", callbackUrl |-> "",
           logoUrl |-> ""]

\* the request as the routes receive it; throws: the storage rejects when it is called
Request(method, user, body, throws) ==
  [method |-> method, user |-> user, body |-> body, throws |-> throws]

\* router.post('/'): the response, the storage calls and the rows afterwards
routerPost(user, body, throws) ==
    /\ req' = <<Request("POST", user, body, throws)>>
    /\ IF ~requireAuth(user)
       THEN /\ response' = <<Status(401, "Authentication required")>>
            /\ storageCalls' = <<>>
            /\ UNCHANGED dbApps
       ELSE IF FieldsMissing(body)
       THEN /\ response' = <<Status(400, "Required fields missing")>>
            /\ storageCalls' = <<>>
            /\ UNCHANGED dbApps
       ELSE IF throws
       THEN /\ response' = <<catchPost>>
            /\ storageCalls' = <<"createOAuthApp">>
            /\ UNCHANGED dbApps
       ELSE LET app == createOAuthApp([userId      |-> user,
                                       name        |-> body.name,
                                       description |-> body.description,
                                       homepageUrl |-> body.homepageUrl,
                                       callbackUrl |-> body.callbackUrl,
                                       logoUrl     |-> body.logoUrl])
            IN  /\ Len(dbApps) < MaxApps
                /\ response' = <<[status |-> 201, message |-> "", app |-> app]>>
                /\ storageCalls' = <<"createOAuthApp">>
                /\ dbApps' = Append(dbApps, app)

\* a POST / that no page of the model waits for
PostOAuthApp(user, body, throws) ==
    /\ routerPost(user, body, throws)
    /\ UNCHANGED <<myApps, selectedApp, showRegenerateCredentialsDialog,
                   regenerationVars, appsToast, exceptRoutes>>


(***************************************************************************)
(* MyOAuthApps: the page of the applications of the session's user, and    *)
(* the regenerateCredentialsMutation of a second page of the same user.    *)
(***************************************************************************)
appsStore == <<dbApps, response>>

\* the query of the user's applications resolves: GET /
FetchMyApps ==
  /\ myApps' = [loaded |-> TRUE, data |-> getUserOAuthApps(sessionUser)]
  /\ UNCHANGED <<appsStore, selectedApp, showRegenerateCredentialsDialog,
                 regenerationVars, appsToast, reviewsVars>>

\* setSelectedApp(app): the page reads selectedApp.id and selectedApp.name
Selected(app) == [id |-> app.id, name |-> app.name]

\* "Regenerate Credentials" in the menu of an application and in its credentials tab
OpenRegenerateCredentials ==
  \E k \in 1..Len(myApps.data) :
    /\ myApps.loaded
    /\ ~showRegenerateCredentialsDialog
    /\ selectedApp' = <<Selected(myApps.data[k])>>
    /\ showRegenerateCredentialsDialog' = TRUE
    /\ UNCHANGED <<appsStore, myApps, regenerationVars, appsToast, reviewsVars>>

\* "Cancel" in the dialog, or the dialog is dismissed
CloseRegenerateCredentials ==
  /\ showRegenerateCredentialsDialog
  /\ showRegenerateCredentialsDialog' = FALSE
  /\ UNCHANGED <<appsStore, myApps, selectedApp, regenerationVars, appsToast, reviewsVars>>

\* the button of the dialog; it is disabled while the mutation of the page is pending
confirmRegenerateCredentials ==
  /\ showRegenerateCredentialsDialog
  /\ ~regenerateCredentialsMutation.isPending
  /\ regenerationsSent < MaxRegenerations
  /\ IF selectedApp # <<>>
     THEN /\ regenerateCredentialsMutation' = Sent(selectedApp[1].id)
          /\ regenerationsSent' = regenerationsSent + 1
     ELSE UNCHANGED <<regenerateCredentialsMutation, regenerationsSent>>
  /\ UNCHANGED <<appsStore, myApps, selectedApp, showRegenerateCredentialsDialog, appsToast,
                 otherRegeneration, reviewsVars>>

\* the same confirmation in the second page, for an application of the user
OtherConfirmsRegenerate ==
  \E k \in 1..Len(dbApps) :
    /\ dbApps[k].userId = sessionUser
    /\ ~otherRegeneration.isPending
    /\ regenerationsSent < MaxRegenerations
    /\ otherRegeneration' = Sent(dbApps[k].id)
    /\ regenerationsSent' = regenerationsSent + 1
    /\ UNCHANGED <<appsStore, myApps, selectedApp, showRegenerateCredentialsDialog, appsToast,
                   regenerateCredentialsMutation, reviewsVars>>

\* the route has answered the page: the rows are stored and the reply is on its way
AnswerPage(out) ==
  /\ dbApps' = out.rows
  /\ regenerateCredentialsMutation' =
       [regenerateCredentialsMutation EXCEPT !.reply = <<out.reply>>]

\* the route has answered the second page
AnswerOther(out) ==
  /\ dbApps' = out.rows
  /\ otherRegeneration' = [otherRegeneration EXCEPT !.reply = <<out.reply>>]

\* the server handles the POST of the credentials of the page
HandleRegenerateCredentials ==
  \E draws \in [1..MaxAttempts -> ClientIds], secret \in Secrets :
    /\ InFlight(regenerateCredentialsMutation)
    /\ AnswerPage(postCredentials(regenerateCredentialsMutation.request[1], draws, secret))
    /\ UNCHANGED <<response, myApps, selectedApp, showRegenerateCredentialsDialog, appsToast,
                   otherRegeneration, regenerationsSent, reviewsVars>>

\* the server handles the POST of the credentials of the second page
HandleOtherRegeneration ==
  \E draws \in [1..MaxAttempts -> ClientIds], secret \in Secrets :
    /\ InFlight(otherRegeneration)
    /\ AnswerOther(postCredentials(otherRegeneration.request[1], draws, secret))
    /\ UNCHANGED <<response, myApps, selectedApp, showRegenerateCredentialsDialog, appsToast,
                   regenerateCredentialsMutation, regenerationsSent, reviewsVars>>

\* regenerateCredentialsMutation settles: onSuccess or onError.  The invalidated query
\* is fetched again by FetchMyApps.
RegenerateSettled ==
  /\ Replied(regenerateCredentialsMutation)
  /\ regenerateCredentialsMutation' = IdleMutation
  /\ IF regenerateCredentialsMutation.reply[1].error = ""
     THEN /\ showRegenerateCredentialsDialog' = FALSE
          /\ appsToast' = Toast("Credentials Regenerated",
                                "New client ID and secret have been generated")
     ELSE /\ appsToast' = ErrorToast(regenerateCredentialsMutation.reply[1],
                                     "Failed to regenerate credentials")
          /\ UNCHANGED showRegenerateCredentialsDialog
  /\ UNCHANGED <<appsStore, myApps, selectedApp, otherRegeneration, regenerationsSent,
                 reviewsVars>>

\* the mutation of the second page settles
OtherRegenerationSettled ==
  /\ Replied(otherRegeneration)
  /\ otherRegeneration' = IdleMutation
  /\ UNCHANGED <<appsStore, myApps, selectedApp, showRegenerateCredentialsDialog, appsToast,
                 regenerateCredentialsMutation, regenerationsSent, reviewsVars>>

\* no review, the reviews page as its hooks initialise it
InitNoReviews ==
  /\ dbReviews = <<>>
  /\ nextReviewId = 1
  /\ sessionUser = 1
  /\ reviews = NotLoaded
  /\ reviewStats = <<>>
  /\ detailStats = <<>>
  /\ InitReviewsPage

InitCredentials ==
  /\ InitNoApps
  /\ InitNoReviews

\* a request from the session of the pages with every required field, stored without
\* a failure
CreateApp == PostOAuthApp(sessionUser, CompleteBody, FALSE)

NextCredentials ==
  \/ CreateApp
  \/ FetchMyApps
  \/ OpenRegenerateCredentials \/ CloseRegenerateCredentials
  \/ confirmRegenerateCredentials \/ OtherConfirmsRegenerate
  \/ HandleRegenerateCredentials \/ HandleOtherRegeneration
  \/ RegenerateSettled \/ OtherRegenerationSettled

SpecCredentials == InitCredentials /\ [][NextCredentials]_vars


(***************************************************************************)
(* Properties of the stored credentials.  A pair is valid for, or accepted *)
(* by, an application when it is the pair the store holds for it.           *)
(***************************************************************************)
PairOf(app) == [clientId |-> app.clientId, clientSecret |-> app.clientSecret]

AllPairs == [clientId : ClientIds, clientSecret : Secrets]

Accepts(app, pair) == pair \in AllPairs /\ PairOf(app) = pair

ValidPairs(app) == {pair \in AllPairs : Accepts(app, pair)}

\* a credential of the application has been written
Generated(app) == app.clientId # Null \/ app.clientSecret # Null

\* the route answers the request of a mutation with a new pair in this step
AnswersWithPair(before, after) ==
  before.reply = <<>> /\ after.reply # <<>> /\ after.reply[1].error = ""

\* the step leaves the application of the request with the echoed pair and nothing else
Replaces(before, after) ==
  AnswersWithPair(before, after) =>
    \A k \in 1..Len(dbApps) :
      dbApps[k].id = after.request[1] =>
        /\ Accepts(dbApps'[k], after.reply[1].pair)
        /\ ~Accepts(dbApps'[k], PairOf(dbApps[k]))
        /\ ValidPairs(dbApps'[k]) = {after.reply[1].pair}

AtMostOnePairValid ==
  \A k \in 1..Len(dbApps) :
    /\ Cardinality(ValidPairs(dbApps[k])) <= 1
    /\ Generated(dbApps[k]) => Cardinality(ValidPairs(dbApps[k])) = 1

\* C2 as stated: in every reachable state exactly one pair is valid for each
\* application.
C2_ExactlyOnePairValid ==
  \A k \in 1..Len(dbApps) : Cardinality(ValidPairs(dbApps[k])) = 1

\* C2: at most one pair is valid for an application in every reachable state, exactly
\* one from the first generation on, and a regeneration leaves the new pair accepted
\* and the pair it replaced not accepted.
C2_RegenerationReplacesPair ==
  /\ []AtMostOnePairValid
  /\ [][/\ Replaces(regenerateCredentialsMutation, regenerateCredentialsMutation')
        /\ Replaces(otherRegeneration, otherRegeneration')]_vars

\* the page has regenerated the credentials of the only application twice: the second
\* regeneration replaced a pair
C2_Witness ==
  /\ Len(dbApps) = 1
  /\ appsToast.title = "Credentials Regenerated"
  /\ Replied(regenerateCredentialsMutation)
  /\ regenerateCredentialsMutation.reply[1].error = ""
  /\ ~otherRegeneration.isPending
  /\ regenerationsSent = MaxRegenerations

\* both pages hold the answer to a regeneration of the application
BothAnswered(appId) ==
  /\ Replied(regenerateCredentialsMutation) /\ Replied(otherRegeneration)
  /\ regenerateCredentialsMutation.request[1] = appId
  /\ otherRegeneration.request[1] = appId
  /\ regenerateCredentialsMutation.reply[1].error = ""
  /\ otherRegeneration.reply[1].error = ""

\* C3: when two regenerations of an application were in flight together, what a read of
\* the application returns is the client id and the client secret of one of the two
\* requests, never the client id of one with the secret of the other or of the old pair.
C3_OneWinnerNoTornPair ==
  \A k \in 1..Len(getUserOAuthApps(sessionUser)) :
    LET app == getUserOAuthApps(sessionUser)[k]
    IN  BothAnswered(app.id) =>
          PairOf(app) \in {regenerateCredentialsMutation.reply[1].pair,
                           otherRegeneration.reply[1].pair}

\* both requests were answered, with pairs that differ in the id and in the secret
C3_Witness ==
  \E k \in 1..Len(dbApps) :
    /\ BothAnswered(dbApps[k].id)
    /\ regenerateCredentialsMutation.reply[1].pair.clientId
         # otherRegeneration.reply[1].pair.clientId
    /\ regenerateCredentialsMutation.reply[1].pair.clientSecret
         # otherRegeneration.reply[1].pair.clientSecret

\* C4: no two applications hold the same client id.
C4_ClientIdsUnique ==
  \A j, k \in 1..Len(dbApps) :
    j # k /\ dbApps[j].clientId # Null => dbApps[j].clientId # dbApps[k].clientId

\* two applications hold client ids, one of them after a regeneration
C4_Witness ==
  /\ Len(dbApps) = MaxApps
  /\ \A k \in 1..Len(dbApps) : dbApps[k].clientId # Null
  /\ regenerationsSent = MaxRegenerations


(***************************************************************************)
(* The reviews page over a store that holds a review from before the       *)
(* rating and the text were validated: a rating outside [1,5] and a null   *)
(* reviewText, the rows calculateReviewStats is defensive against.         *)
(***************************************************************************)
InitLegacyReviews ==
  /\ \E rating \in {0, Stars + 1} :
       dbReviews = <<[id |-> 1, userId |-> currentUserId, rating |-> rating,
                      reviewText |-> Null]>>
  /\ nextReviewId = 2
  /\ sessionUser = currentUserId
  /\ reviews = NotLoaded
  /\ reviewStats = <<>>
  /\ detailStats = <<>>
  /\ InitReviewsPage
  /\ InitNoApps

\* the session of the author alone: no other user posts meanwhile
NextLegacyReviews ==
  \/ FetchReviews \/ FetchUserReview
  \/ WriteAReview \/ EditYourReview \/ EditListed \/ handleDelete
  \/ DismissReviewDialog \/ CancelReviewDialog \/ CloseDeleteDialog
  \/ handleRatingChange \/ handleInputChange
  \/ handleSubmit \/ confirmDelete
  \/ HandlePostReview \/ HandlePutReview \/ HandleDeleteReview
  \/ SubmitSettled \/ UpdateSettled \/ DeleteSettled

SpecLegacyReviews == InitLegacyReviews /\ [][NextLegacyReviews]_vars

\* the form data of the create and edit requests that are pending
PendingReviewData ==
  {m.request[1] : m \in {m \in {submitReviewMutation} : m.isPending}}
    \cup {m.request[1].data : m \in {m \in {updateReviewMutation} : m.isPending}}

\* C11: every create or edit request of the page carries a rating that is an integer
\* in [1,5]; a rating outside the range, also one loaded into the form from an existing
\* review by the edit action, is never sent.
C11_RequestRatingInRange == \A data \in PendingReviewData : data.rating \in 1..Stars

\* the ids of the reviews the pending edit and delete requests are for
PendingTargets ==
  {m.request[1].reviewId : m \in {m \in {updateReviewMutation} : m.isPending}}
    \cup {m.request[1] : m \in {m \in {deleteReviewMutation} : m.isPending}}

\* C12: an update or a delete request is only ever issued for a review whose userId is
\* the id of the current user, the user of the session.
C12_OnlyOwnReviewTargeted ==
  \A reviewId \in PendingTargets :
    \A k \in RowsWithId(reviewId) : dbReviews[k].userId = sessionUser

\* C13: the review text of every create or edit request is a string, never null, also
\* when the form was filled from an existing review whose reviewText is null.
C13_RequestTextNeverNull == \A data \in PendingReviewData : data.reviewText # Null

\* an edit request is pending for a review whose stored reviewText is null
C13_Witness ==
  /\ InFlight(updateReviewMutation)
  /\ selectedReview # <<>>
  /\ selectedReview[1].reviewText = Null
  /\ updateReviewMutation.request[1].reviewId = selectedReview[1].id
  /\ updateReviewMutation.request[1].data.reviewText = ""
  /\ \E k \in RowsWithId(selectedReview[1].id) : dbReviews[k].reviewText = Null


(***************************************************************************)
(* The rating and the review count of an application as the pages show     *)
(* them: the reviews page and the details page from the reviews query, the *)
(* Stats tab of My OAuth Apps and the AppCard of the marketplace from      *)
(* Math.random().  A draw of Math.random() is counted in thousandths.      *)
(***************************************************************************)
\* Math.random(): 0, a middle value and the largest value below 1
RandomDraws == {0, 500, 999}

\* (3 + Math.random() * 2).toFixed(1), in tenths
averageRatingShown(draw) == (3000 + draw * 2 + 50) \div 100

\* Math.floor(Math.random() * 50)
reviewCountShown(draw) == (draw * 50) \div 1000

\* Math.floor(Math.random() * 5) + 1
cardStarsShown(draw) == (draw * 5) \div 1000 + 1

\* everything but what the two cards show
exceptDisplay == <<dbReviews, reviews, pageVars, nextReviewId, sessionUser, userReview,
                   formVars, mutationVars, toast, requestsSent, appsVars, newAppVars,
                   deleteAppVars, plansVars, routeVars, detailVars>>

\* the Stats tab of the application renders: the Average Rating card
RenderStatsTab ==
  \E rating \in RandomDraws, count \in RandomDraws :
    /\ statsTab' = <<[averageRating |-> averageRatingShown(rating),
                      reviews       |-> reviewCountShown(count)]>>
    /\ UNCHANGED <<exceptDisplay, appCard>>

\* the AppCard of the application renders
RenderAppCard ==
  \E stars \in RandomDraws :
    /\ appCard' = <<[stars |-> cardStarsShown(stars)]>>
    /\ UNCHANGED <<exceptDisplay, statsTab>>

\* the reviews query, the two pages of the reviews, and the two cards
NextDisplay ==
  \/ (FetchReviews \/ MountReviews \/ MountDetails)
  \/ RenderStatsTab
  \/ RenderAppCard

SpecDisplay == InitStats /\ [][NextDisplay]_vars

\* what was shown changes only to the same
SameShown(before, after) == before # <<>> /\ after # <<>> => after = before

\* C14: the rating and the review count shown for an application are a function of its
\* persisted reviews: two renders over the same review set show the same rating and the
\* same count, on the reviews page, the details page, the Stats tab and the marketplace
\* card.
C14_DisplayDeterministic ==
  [][/\ dbReviews' = dbReviews /\ Given' = Given
       => /\ SameShown(reviewStats, reviewStats')
          /\ SameShown(detailStats, detailStats')
     /\ dbReviews' = dbReviews
       => /\ SameShown(statsTab, statsTab')
          /\ SameShown(appCard, appCard')]_vars


(***************************************************************************)
(* MyOAuthApps: the New App dialog and its createAppMutation, next to      *)
(* requests that reach the routes without the page.                        *)
(***************************************************************************)
\* everything but the New App dialog, the store of the applications and the notification
exceptNewAppAndRoutes ==
  <<dbReviews, reviews, pageVars, nextReviewId, sessionUser, userReview,
    formVars, mutationVars, toast, requestsSent, displayVars, detailVars,
    myApps, selectedApp, showRegenerateCredentialsDialog, regenerationVars,
    deleteAppVars, plansVars>>
exceptNewApp == <<exceptNewAppAndRoutes, routeVars>>

\* the texts that can be typed into a field of the form
FieldTexts(field) == {body[field] : body \in Bodies}

\* an input of type="url" accepts an absolute URL, and the empty text unless required
UrlInputValid(value, required) ==
  IF value = "" THEN ~required ELSE value \in AbsoluteUrls

\* the form passes the validation of its inputs: required, type="url"
FormValid(data) ==
  /\ data.name # ""
  /\ data.description # ""
  /\ UrlInputValid(data.homepageUrl, TRUE)
  /\ UrlInputValid(data.callbackUrl, TRUE)
  /\ UrlInputValid(data.logoUrl, FALSE)

\* "New OAuth App" in the header, "Create Your First App" in the empty list
OpenNewApp ==
  /\ ~showNewAppDialog /\ ~showRegenerateCredentialsDialog
  /\ showNewAppDialog' = TRUE
  /\ UNCHANGED <<exceptNewApp, appsStore, appsToast, appFormData, createAppMutation>>

\* "Cancel" in the New App dialog, or the dialog is dismissed
CloseNewApp ==
  /\ showNewAppDialog
  /\ showNewAppDialog' = FALSE
  /\ UNCHANGED <<exceptNewApp, appsStore, appsToast, appFormData, createAppMutation>>

\* handleInputChange of My OAuth Apps
handleAppInputChange ==
  \E field \in DOMAIN emptyAppForm :
    \E value \in FieldTexts(field) :
      /\ showNewAppDialog
      /\ appFormData' = [appFormData EXCEPT ![field] = value]
      /\ UNCHANGED <<exceptNewApp, appsStore, appsToast, showNewAppDialog, createAppMutation>>

\* handleSubmit of My OAuth Apps: the form is submitted once its inputs are valid; the
\* button is disabled while the mutation is pending
handleAppSubmit ==
  /\ showNewAppDialog
  /\ ~createAppMutation.isPending
  /\ FormValid(appFormData)
  /\ createAppMutation' = Sent(appFormData)
  /\ UNCHANGED <<exceptNewApp, appsStore, appsToast, showNewAppDialog, appFormData>>

\* what apiRequest hands to the mutation: nothing for a 2xx response, else the message
ReplyOf(answer) ==
  [error |-> IF answer.status \in 200..299 THEN "" ELSE answer.message]

\* the server handles the POST of the page
HandleCreateApp ==
  \E throws \in BOOLEAN :
    /\ InFlight(createAppMutation)
    /\ routerPost(sessionUser, createAppMutation.request[1], throws)
    /\ createAppMutation' = [createAppMutation EXCEPT !.reply = <<ReplyOf(response'[1])>>]
    /\ UNCHANGED <<exceptNewAppAndRoutes, appsToast, showNewAppDialog, appFormData>>

\* createAppMutation settles: onSuccess or onError.  The invalidated query is fetched
\* again by FetchMyApps.
CreateAppSettled ==
  /\ Replied(createAppMutation)
  /\ createAppMutation' = IdleMutation
  /\ IF createAppMutation.reply[1].error = ""
     THEN /\ showNewAppDialog' = FALSE
          /\ appFormData' = emptyAppForm
          /\ appsToast' = Toast("App Created", "Your OAuth app has been created successfully")
     ELSE /\ appsToast' = ErrorToast(createAppMutation.reply[1], "Failed to create OAuth app")
          /\ UNCHANGED <<showNewAppDialog, appFormData>>
  /\ UNCHANGED <<exceptNewApp, appsStore>>

\* catch (error) of GET /
catchGet == Status(500, "Failed to fetch OAuth apps")

\* router.get('/'): the response and the storage calls; throws: getUserOAuthApps rejects
routerGet(user, throws) ==
  /\ req' = <<Request("GET", user, NoBody, throws)>>
  /\ IF ~requireAuth(user)
     THEN /\ response' = <<Status(401, "Authentication required")>>
          /\ storageCalls' = <<>>
     ELSE /\ response' = IF throws THEN <<catchGet>>
                         ELSE <<[status |-> 200, message |-> "",
                                 apps |-> getUserOAuthApps(user)]>>
          /\ storageCalls' = <<"getUserOAuthApps">>

\* the requesters of the requests that no page waits for
Requesters == {Anonymous, currentUserId}

\* POST / with any body, with or without a session
DirectPost ==
  \E user \in Requesters, body \in Bodies, throws \in BOOLEAN :
    PostOAuthApp(user, body, throws)

\* GET / with or without a session
DirectGet ==
  \E user \in Requesters, throws \in BOOLEAN :
    /\ routerGet(user, throws)
    /\ UNCHANGED <<exceptNewAppAndRoutes, newAppVars, dbApps, appsToast>>

\* the page creates applications while other requests read the list
NextApps ==
  \/ OpenNewApp \/ CloseNewApp
  \/ handleAppInputChange \/ handleAppSubmit
  \/ HandleCreateApp \/ CreateAppSettled
  \/ DirectGet

SpecApps == InitCredentials /\ [][NextApps]_vars

\* the routes alone, under requests with any body
NextRoutes == DirectPost \/ DirectGet

SpecRoutes == InitCredentials /\ [][NextRoutes]_vars

\* the storage call of POST / was reached and failed
PostStorageFailed ==
  \E user \in Requesters, body \in Bodies :
    /\ requireAuth(user) /\ ~FieldsMissing(body)
    /\ routerPost(user, body, TRUE)

\* the storage call of GET / was reached and failed
GetStorageFailed == \E user \in Requesters : requireAuth(user) /\ routerGet(user, TRUE)

\* a failed storage call is answered with status 500 and stores nothing
RouteFailureAnswered ==
  /\ HandleCreateApp /\ PostStorageFailed
       => /\ response'[1].status = 500
          /\ dbApps' = dbApps
          /\ createAppMutation'.reply[1].error # ""
  /\ DirectGet /\ GetStorageFailed => response'[1].status = 500

\* a failed create request raises the error notification and has no success effect
ClientFailureShown ==
  CreateAppSettled /\ createAppMutation.reply[1].error # ""
    => /\ appsToast'.title = "Error"
       /\ appsToast'.description = createAppMutation.reply[1].error
       /\ UNCHANGED <<showNewAppDialog, appFormData>>

C16_StoredUrlsAbsolute ==
  \A k \in 1..Len(dbApps) :
    dbApps[k].callbackUrl \in AbsoluteUrls /\ dbApps[k].homepageUrl \in AbsoluteUrls


(***************************************************************************)
(* MyOAuthApps: the Delete OAuth App dialog and its deleteAppMutation.     *)
(* The route of the delete and the store are not part of the source tree;  *)
(* they follow the Application lifecycle of the specification: deleting an *)
(* application removes its pricing plans, reviews and subscriptions.        *)
(***************************************************************************)
\* the tables whose rows reference an application
Tables == {"pricingPlans", "reviews", "subscriptions"}

\* the applications of the user when the page opens, by id
OwnedAppIds == {1, 2}

\* the stored row of an application without credentials
AppRow(id) ==
  [id |-> id, userId |-> currentUserId, name |-> "App", description |-> "An application",
   homepageUrl |-> "https://app.example", callbackUrl |-> "https://app.example/callback",
   logoUrl |-> "", clientId |-> NullToken, clientSecret |-> NullToken]

\* the rows that can reference the applications: one per table and application
RecordsOf(appIds) == [table : Tables, id : {1}, appId : appIds]

\* the rows left when the rows of an application are removed
withoutRecordsOfMutant(records, appId) == records
withoutRecordsOf(records, appId) == {r \in records : r.appId # appId}

\* DELETE /apps/{id} for a user: the applications and the rows afterwards, and the reply
deleteOAuthApp(userId, appId) ==
  IF AppsWithId(appId) = {}
  THEN [apps |-> dbApps, records |-> dbRecords, reply |-> [error |-> "NotFound"]]
  ELSE LET k == CHOOSE x \in AppsWithId(appId) : TRUE
       IN  IF dbApps[k].userId # userId
           THEN [apps |-> dbApps, records |-> dbRecords, reply |-> [error |-> "Forbidden"]]
           ELSE [apps    |-> RemoveAt(dbApps, k),
                 records |-> withoutRecordsOf(dbRecords, appId),
                 reply   |-> [error |-> ""]]

\* everything but the Delete OAuth App dialog, the store and the notification
exceptDeleteApp == <<dbReviews, reviews, pageVars, nextReviewId, sessionUser, userReview,
                     formVars, mutationVars, toast, requestsSent, displayVars, newAppVars,
                     response, showRegenerateCredentialsDialog, regenerationVars, plansVars,
                     routeVars, detailVars>>

\* the query of the user's applications resolves
FetchOwnedApps ==
  /\ myApps' = [loaded |-> TRUE, data |-> getUserOAuthApps(sessionUser)]
  /\ UNCHANGED <<exceptDeleteApp, dbApps, selectedApp, appsToast, deleteAppVars>>

\* "Delete App" in the menu of an application
OpenDeleteApp ==
  \E k \in 1..Len(myApps.data) :
    /\ myApps.loaded
    /\ ~showAppDeleteDialog
    /\ selectedApp' = <<Selected(myApps.data[k])>>
    /\ showAppDeleteDialog' = TRUE
    /\ UNCHANGED <<exceptDeleteApp, dbApps, myApps, appsToast, deleteAppMutation, dbRecords>>

\* "Cancel" in the delete dialog, or the dialog is dismissed
CloseDeleteApp ==
  /\ showAppDeleteDialog
  /\ showAppDeleteDialog' = FALSE
  /\ UNCHANGED <<exceptDeleteApp, dbApps, myApps, selectedApp, appsToast, deleteAppMutation,
                 dbRecords>>

\* confirmDelete of My OAuth Apps; the button is disabled while the delete is pending
confirmAppDelete ==
  /\ showAppDeleteDialog
  /\ ~deleteAppMutation.isPending
  /\ selectedApp # <<>>
  /\ deleteAppMutation' = Sent(selectedApp[1].id)
  /\ UNCHANGED <<exceptDeleteApp, dbApps, myApps, selectedApp, appsToast, showAppDeleteDialog,
                 dbRecords>>

\* the values of the answer, once computed
AnswerDelete(out) ==
  /\ dbApps' = out.apps
  /\ dbRecords' = out.records
  /\ deleteAppMutation' = [deleteAppMutation EXCEPT !.reply = <<out.reply>>]

\* the server handles the DELETE of the page
HandleDeleteApp ==
  /\ InFlight(deleteAppMutation)
  /\ AnswerDelete(deleteOAuthApp(sessionUser, deleteAppMutation.request[1]))
  /\ UNCHANGED <<exceptDeleteApp, myApps, selectedApp, appsToast, showAppDeleteDialog>>

\* deleteAppMutation settles: onSuccess or onError.  The invalidated query is fetched
\* again by FetchOwnedApps.
DeleteAppSettled ==
  /\ Replied(deleteAppMutation)
  /\ deleteAppMutation' = IdleMutation
  /\ IF deleteAppMutation.reply[1].error = ""
     THEN /\ showAppDeleteDialog' = FALSE
          /\ selectedApp' = <<>>
          /\ appsToast' = Toast("App Deleted", "Your OAuth app has been deleted")
     ELSE /\ appsToast' = ErrorToast(deleteAppMutation.reply[1], "Failed to delete OAuth app")
          /\ UNCHANGED <<showAppDeleteDialog, selectedApp>>
  /\ UNCHANGED <<exceptDeleteApp, dbApps, myApps, dbRecords>>

\* the user owns two applications, each with a plan, a review or a subscription
InitDelete ==
  /\ InitNoReviews
  /\ InitAppsPage
  /\ dbApps = <<AppRow(1), AppRow(2)>>
  /\ dbPlans = <<>>
  /\ dbRecords \in {records \in SUBSET RecordsOf(OwnedAppIds) :
                      \A appId \in OwnedAppIds : \E r \in records : r.appId = appId}

NextDelete ==
  \/ FetchOwnedApps
  \/ OpenDeleteApp \/ CloseDeleteApp
  \/ confirmAppDelete
  \/ HandleDeleteApp \/ DeleteAppSettled

SpecDelete == InitDelete /\ [][NextDelete]_vars

\* the ids of the stored applications
StoredAppIds == {dbApps[k].id : k \in 1..Len(dbApps)}

\* every row references a stored application
NoOrphanRecord == \A r \in dbRecords : r.appId \in StoredAppIds

\* a delete that succeeded removed exactly the rows of the deleted application
DeleteCascades ==
  \A appId \in OwnedAppIds :
    appId \in StoredAppIds /\ appId \notin StoredAppIds'
      => /\ \A r \in dbRecords' : r.appId # appId
         /\ \A r \in dbRecords : r.appId # appId => r \in dbRecords'
         /\ dbRecords' \subseteq dbRecords

\* C17: after an application is deleted, no pricing plan, review or subscription that
\* referenced it remains in the store, and the rows of the other applications are left
\* unchanged.
C17_DeleteCascades == []NoOrphanRecord /\ [][DeleteCascades]_vars

\* one of the two applications was deleted through the page; the rows of the other
\* application are still stored
C17_Witness ==
  /\ Cardinality(StoredAppIds) = 1
  /\ appsToast = Toast("App Deleted", "Your OAuth app has been deleted")
  /\ dbRecords # {}
  /\ \A r \in dbRecords : r.appId \in StoredAppIds


(***************************************************************************)
(* OAuthAppPricingPlans: the Add and Edit dialogs of the pricing plans of  *)
(* one application.  Texts that the page parses or trims are sequences of  *)
(* characters; a price is counted in hundredths, the step of its input.    *)
(* The routes of the plans and the store are not part of the source tree;  *)
(* they store the plan of a request as the Pricing Plan of the             *)
(* specification.                                                          *)
(***************************************************************************)
\* everything but the page of the pricing plans
exceptPlansPage == <<dbReviews, reviews, pageVars, nextReviewId, sessionUser, userReview,
                     formVars, mutationVars, toast, requestsSent, appsVars, displayVars,
                     newAppVars, deleteAppVars, routeVars, detailVars>>
\* what the Add and Edit dialogs leave alone: the other pages and the Delete dialog
exceptPlans == <<exceptPlansPage, planDeleteVars>>

\* the texts typed into the price input: nothing, letters, a negative and a decimal number
PriceTexts == {<<>>, <<"a", "b", "c">>, <<"-", "5">>, <<"9", ".", "9", "9">>}

\* the texts typed into a feature input: nothing, a space, a word after a space, a word
FeatureTexts == {<<>>, <<" ">>, <<" ", "A">>, <<"B">>}

PlanNames == {"", "Pro"}

\* the items of the RadioGroup
BillingIntervals == {"monthly", "yearly"}

\* parseFloat(value): an optional sign, digits, an optional fraction; NaN without a digit
parseFloat(value) ==
  LET digits == <<"0", "1", "2", "3", "4", "5", "6", "7", "8", "9">>
      IsDigit(c) == \E i \in 1..10 : digits[i] = c
      DigitOf(c) == (CHOOSE i \in 1..10 : digits[i] = c) - 1
      RECURSIVE Leading(_)
      Leading(text) == IF text = <<>> \/ ~IsDigit(Head(text)) THEN <<>>
                       ELSE <<Head(text)>> \o Leading(Tail(text))
      RECURSIVE ValueOf(_)
      ValueOf(ds) == IF ds = <<>> THEN 0
                     ELSE ValueOf(SubSeq(ds, 1, Len(ds) - 1)) * 10 + DigitOf(ds[Len(ds)])
      negative == value # <<>> /\ Head(value) = "-"
      unsigned == IF value # <<>> /\ Head(value) \in {"-", "+"} THEN Tail(value) ELSE value
      whole    == Leading(unsigned)
      rest     == SubSeq(unsigned, Len(whole) + 1, Len(unsigned))
      fraction == IF rest # <<>> /\ Head(rest) = "." THEN Leading(Tail(rest)) ELSE <<>>
      hundredths == ValueOf(SubSeq(fraction \o <<"0", "0">>, 1, 2))
      magnitude  == ValueOf(whole) * 100 + hundredths
  IN  IF whole = <<>> /\ fraction = <<>> THEN NotANumber
      ELSE Number(IF negative THEN 0 - magnitude ELSE magnitude)

\* e.target.value of an input of type="number": the text of a number, or nothing
numberInputValue(typed) ==
  IF typed # <<>> /\ \A i \in 1..Len(typed) : typed[i] \in {"a", "b", "c"} THEN <<>> ELSE typed

\* isNaN(numValue) ? 0 : numValue
priceOf(value) == IF parseFloat(value).isNaN THEN Number(0) ELSE parseFloat(value)

\* f.trim()
RECURSIVE trim(_)
trimMutant(f) == f
trim(f) ==
  IF f # <<>> /\ Head(f) = " " THEN trim(Tail(f))
  ELSE IF f # <<>> /\ f[Len(f)] = " " THEN trim(SubSeq(f, 1, Len(f) - 1))
  ELSE f

\* formData.features?.filter(f => f.trim() !== '')
cleanedFeatures(features) == SelectSeq(features, LAMBDA f : trim(f) # <<>>)

\* the price input accepts the number: required, min="0"
priceInputValidMutant(price) == TRUE
priceInputValid(price) == ~price.isNaN /\ price.cents >= 0

\* the form passes the validation of its inputs
PlanFormValid(data) == data.name # "" /\ priceInputValid(data.price)

\* the id of the next row: above the ids of the stored rows
nextPlanId ==
  IF dbPlans = <<>> THEN 1
  ELSE 1 + CHOOSE n \in {dbPlans[k].id : k \in 1..Len(dbPlans)} :
             \A k \in 1..Len(dbPlans) : dbPlans[k].id <= n

\* POST /apps/{id}/pricing-plans: the rows afterwards
createPricingPlan(data) ==
  Append(dbPlans, [id |-> nextPlanId, name |-> data.name, price |-> data.price,
                   billingInterval |-> data.billingInterval, features |-> data.features,
                   isPublic |-> data.isPublic])

\* PUT /pricing-plans/{planId}: the rows afterwards
updatePricingPlan(planId, data) ==
  [k \in 1..Len(dbPlans) |->
     IF dbPlans[k].id = planId
     THEN [id |-> planId, name |-> data.name, price |-> data.price,
           billingInterval |-> data.billingInterval, features |-> data.features,
           isPublic |-> data.isPublic]
     ELSE dbPlans[k]]

\* the query of the pricing plans resolves; it is fetched again whenever a mutation
\* has invalidated it, so that the table lists the stored plans
FetchPricingPlans ==
  /\ ~pricingPlans.loaded
  /\ pricingPlans' = [loaded |-> TRUE]
  /\ UNCHANGED <<exceptPlans, dbPlans, planDialogVars, planFormData, planMutationVars,
                 planToast>>

\* "Add Pricing Plan" in the header, under the table and in the empty list
OpenAddPlan ==
  /\ ~showAddPlanDialog /\ ~showEditPlanDialog /\ ~showPlanDeleteDialog
  /\ showAddPlanDialog' = TRUE
  /\ UNCHANGED <<exceptPlans, planStoreVars, showEditPlanDialog, selectedPlan, planFormData,
                 planMutationVars, planToast>>

\* "Cancel" in the Add dialog, or the dialog is dismissed
CloseAddPlan ==
  /\ showAddPlanDialog
  /\ showAddPlanDialog' = FALSE
  /\ UNCHANGED <<exceptPlans, planStoreVars, showEditPlanDialog, selectedPlan, planFormData,
                 planMutationVars, planToast>>

\* handleEdit(plan): the pencil of a listed plan
handlePlanEdit ==
  \E k \in 1..Len(dbPlans) :
    LET plan == dbPlans[k]
    IN  /\ pricingPlans.loaded
        /\ ~showAddPlanDialog /\ ~showEditPlanDialog /\ ~showPlanDeleteDialog
        /\ selectedPlan' = <<[id |-> plan.id]>>
        /\ planFormData' = [name            |-> plan.name,
                            price           |-> plan.price,
                            billingInterval |-> plan.billingInterval,
                            features        |-> plan.features,
                            isPublic        |-> plan.isPublic]
        /\ showEditPlanDialog' = TRUE
        /\ UNCHANGED <<exceptPlans, planStoreVars, showAddPlanDialog, planMutationVars,
                       planToast>>

\* "Cancel" in the Edit dialog, or the dialog is dismissed
CloseEditPlan ==
  /\ showEditPlanDialog
  /\ showEditPlanDialog' = FALSE
  /\ UNCHANGED <<exceptPlans, planStoreVars, showAddPlanDialog, selectedPlan, planFormData,
                 planMutationVars, planToast>>

\* one of the two dialogs shows the form
PlanFormShown == showAddPlanDialog \/ showEditPlanDialog

\* what the handlers of the form leave alone
exceptPlanForm == <<exceptPlans, planStoreVars, planDialogVars, planMutationVars, planToast>>

\* handleInputChange for the name
handlePlanNameChange ==
  \E value \in PlanNames :
    /\ PlanFormShown
    /\ planFormData' = [planFormData EXCEPT !.name = value]
    /\ UNCHANGED exceptPlanForm

\* handleInputChange for the price
handlePlanPriceChange ==
  \E typed \in PriceTexts :
    /\ PlanFormShown
    /\ planFormData' = [planFormData EXCEPT !.price = priceOf(numberInputValue(typed))]
    /\ UNCHANGED exceptPlanForm

handleBillingIntervalChange ==
  \E value \in BillingIntervals :
    /\ PlanFormShown
    /\ planFormData' = [planFormData EXCEPT !.billingInterval = value]
    /\ UNCHANGED exceptPlanForm

handleFeatureChange ==
  \E index \in 1..Len(planFormData.features), value \in FeatureTexts :
    /\ PlanFormShown
    /\ planFormData' = [planFormData EXCEPT !.features[index] = value]
    /\ UNCHANGED exceptPlanForm

\* "Add Feature"
addFeatureField ==
  /\ PlanFormShown
  /\ Len(planFormData.features) < MaxFeatures
  /\ planFormData' = [planFormData EXCEPT !.features = Append(@, <<>>)]
  /\ UNCHANGED exceptPlanForm

\* the bin next to a feature, shown while there is more than one
removeFeatureField ==
  \E index \in 1..Len(planFormData.features) :
    /\ PlanFormShown
    /\ Len(planFormData.features) > 1
    /\ planFormData' = [planFormData EXCEPT !.features = RemoveAt(@, index)]
    /\ UNCHANGED exceptPlanForm

\* handleSubmit of the form in either dialog, once its inputs are valid; the mutation it
\* starts has settled before
handlePlanSubmit ==
  LET cleanedData == [planFormData EXCEPT !.features = cleanedFeatures(@)]
  IN  /\ PlanFormValid(planFormData)
      /\ planRequestsSent < MaxRequests
      /\ planRequestsSent' = planRequestsSent + 1
      /\ IF selectedPlan # <<>>
         THEN /\ ~updatePlanMutation.isPending
              /\ updatePlanMutation' = Sent([planId |-> selectedPlan[1].id,
                                             data   |-> cleanedData])
              /\ UNCHANGED createPlanMutation
         ELSE /\ ~createPlanMutation.isPending
              /\ createPlanMutation' = Sent(cleanedData)
              /\ UNCHANGED updatePlanMutation
      /\ UNCHANGED <<exceptPlans, planStoreVars, planDialogVars, planFormData, planToast>>

\* "Create Plan"; the button is disabled while createPlanMutation is pending
SubmitAddPlan ==
  /\ showAddPlanDialog
  /\ ~createPlanMutation.isPending
  /\ handlePlanSubmit

\* "Save Changes"; the button is disabled while updatePlanMutation is pending
SubmitEditPlan ==
  /\ showEditPlanDialog
  /\ ~updatePlanMutation.isPending
  /\ handlePlanSubmit

\* the server handles the POST of the page
HandleCreatePlan ==
  /\ InFlight(createPlanMutation)
  /\ dbPlans' = createPricingPlan(createPlanMutation.request[1])
  /\ createPlanMutation' = [createPlanMutation EXCEPT !.reply = <<[error |-> ""]>>]
  /\ UNCHANGED <<exceptPlans, pricingPlans, planDialogVars, planFormData,
                 updatePlanMutation, planRequestsSent, planToast>>

\* the server handles the PUT of the page
HandleUpdatePlan ==
  /\ InFlight(updatePlanMutation)
  /\ dbPlans' = updatePricingPlan(updatePlanMutation.request[1].planId,
                                  updatePlanMutation.request[1].data)
  /\ updatePlanMutation' = [updatePlanMutation EXCEPT !.reply = <<[error |-> ""]>>]
  /\ UNCHANGED <<exceptPlans, pricingPlans, planDialogVars, planFormData,
                 createPlanMutation, planRequestsSent, planToast>>

\* createPlanMutation settles: onSuccess or onError
CreatePlanSettled ==
  /\ Replied(createPlanMutation)
  /\ createPlanMutation' = IdleMutation
  /\ IF createPlanMutation.reply[1].error = ""
     THEN /\ showAddPlanDialog' = FALSE
          /\ planFormData' = emptyPlanForm
          /\ planToast' = Toast("Plan Created", "Pricing plan has been created successfully")
     ELSE /\ planToast' = ErrorToast(createPlanMutation.reply[1],
                                     "Failed to create pricing plan")
          /\ UNCHANGED <<showAddPlanDialog, planFormData>>
  /\ UNCHANGED <<exceptPlans, planStoreVars, showEditPlanDialog, selectedPlan,
                 updatePlanMutation, planRequestsSent>>

\* updatePlanMutation settles: onSuccess or onError
UpdatePlanSettled ==
  /\ Replied(updatePlanMutation)
  /\ updatePlanMutation' = IdleMutation
  /\ IF updatePlanMutation.reply[1].error = ""
     THEN /\ showEditPlanDialog' = FALSE
          /\ selectedPlan' = <<>>
          /\ planToast' = Toast("Plan Updated", "Pricing plan has been updated successfully")
     ELSE /\ planToast' = ErrorToast(updatePlanMutation.reply[1],
                                     "Failed to update pricing plan")
          /\ UNCHANGED <<showEditPlanDialog, selectedPlan>>
  /\ UNCHANGED <<exceptPlans, planStoreVars, showAddPlanDialog, planFormData,
                 createPlanMutation, planRequestsSent>>

\* the application has one yearly plan
InitPlans ==
  /\ InitNoReviews
  /\ InitAppsPage
  /\ dbApps = <<>>
  /\ dbRecords = {}
  /\ dbPlans = <<[id |-> 1, name |-> "Pro", price |-> Number(999),
                  billingInterval |-> "yearly", features |-> << <<" ", "A">> >>,
                  isPublic |-> TRUE]>>

\* the dialogs, the submits, the server and the callbacks
PlanRequests ==
  \/ FetchPricingPlans
  \/ OpenAddPlan \/ CloseAddPlan
  \/ handlePlanEdit \/ CloseEditPlan
  \/ SubmitAddPlan \/ SubmitEditPlan
  \/ HandleCreatePlan \/ HandleUpdatePlan
  \/ CreatePlanSettled \/ UpdatePlanSettled

\* the user names the plan and edits the price and the interval
NextPlanFields ==
  \/ PlanRequests
  \/ handlePlanNameChange \/ handlePlanPriceChange
  \/ handleBillingIntervalChange

SpecPlanFields == InitPlans /\ [][NextPlanFields]_vars

\* the user names the plan and edits the list of its features, up to the submits of
\* the two dialogs and before their answers arrive
NextPlanFeatures ==
  \/ FetchPricingPlans
  \/ OpenAddPlan \/ CloseAddPlan
  \/ handlePlanEdit \/ CloseEditPlan
  \/ handlePlanNameChange
  \/ handleFeatureChange \/ addFeatureField \/ removeFeatureField
  \/ SubmitAddPlan \/ SubmitEditPlan

SpecPlanFeatures == InitPlans /\ [][NextPlanFeatures]_vars

\* the plans of the create and update requests that are pending
PendingPlanData ==
  {m.request[1] : m \in {m \in {createPlanMutation} : m.isPending}}
    \cup {m.request[1].data : m \in {m \in {updatePlanMutation} : m.isPending}}

\* C18: every create or update request of a pricing plan carries a price that is a
\* number greater than or equal to 0, never NaN and never negative, whatever was typed
\* into the price field before the submit.
C18_RequestPriceNonNegative ==
  \A data \in PendingPlanData : ~data.price.isNaN /\ data.price.cents >= 0

\* an update request lowers the price of the stored plan to 0: the price field was
\* edited before the submit
C18_Witness ==
  /\ InFlight(updatePlanMutation)
  /\ updatePlanMutation.request[1].data.price = Number(0)
  /\ \E k \in 1..Len(dbPlans) :
       /\ dbPlans[k].id = updatePlanMutation.request[1].planId
       /\ dbPlans[k].price = Number(999)

\* C19: every create or update request of a pricing plan carries a billingInterval that
\* is 'monthly' or 'yearly', also after an existing plan was loaded into the form by the
\* edit action.
C19_RequestIntervalKnown ==
  \A data \in PendingPlanData : data.billingInterval \in {"monthly", "yearly"}

\* an update request carries the interval that the edit action loaded from the plan
C19_Witness ==
  /\ InFlight(updatePlanMutation)
  /\ updatePlanMutation.request[1].data.billingInterval = "yearly"
  /\ \E k \in 1..Len(dbPlans) :
       /\ dbPlans[k].id = updatePlanMutation.request[1].planId
       /\ dbPlans[k].billingInterval = "yearly"
  /\ showEditPlanDialog

\* a feature of spaces only, or of nothing
Blank(f) == \A i \in 1..Len(f) : f[i] = " "

\* sent is the list of the entries of features that are not blank, in their order
KeepsNonBlank(features, sent) ==
  LET kept == {i \in 1..Len(features) : ~Blank(features[i])}
  IN  /\ Len(sent) = Cardinality(kept)
      /\ \A i \in kept :
           sent[Cardinality({j \in kept : j <= i})] = features[i]

\* the features of the request that the submit of this step sends
SentFeatures ==
  IF updatePlanMutation' # updatePlanMutation
  THEN updatePlanMutation'.request[1].data.features
  ELSE createPlanMutation'.request[1].features

\* C20: the features list sent by a submit is exactly the features list of the form
\* without its empty and whitespace-only entries: the other entries keep their order and
\* their text, and no blank feature is sent.
C20_FeaturesCleaned ==
  [][handlePlanSubmit => KeepsNonBlank(planFormData.features, SentFeatures)]_vars

\* a request carries the one feature of the form that is not blank, with its leading
\* space, while the form also lists a feature of a single space
C20_Witness ==
  /\ InFlight(createPlanMutation)
  /\ createPlanMutation.request[1].features = << <<" ", "A">> >>
  /\ planFormData.features = << <<" ">>, <<" ", "A">> >>

(***************************************************************************)
(* OAuthAppPricingPlans: the Delete dialog, and the three dialogs of the   *)
(* page together.                                                          *)
(***************************************************************************)
\* handlePublicToggle(checked): the switch of the form
handlePublicToggle ==
  \E checked \in BOOLEAN :
    /\ PlanFormShown
    /\ planFormData' = [planFormData EXCEPT !.isPublic = checked]
    /\ UNCHANGED exceptPlanForm

\* DELETE /pricing-plans/{planId}: the rows afterwards
deletePricingPlan(planId) == SelectSeq(dbPlans, LAMBDA plan : plan.id # planId)

\* handleDelete(plan): the bin of a listed plan
handlePlanDelete ==
  \E k \in 1..Len(dbPlans) :
    /\ pricingPlans.loaded
    /\ ~showAddPlanDialog /\ ~showEditPlanDialog /\ ~showPlanDeleteDialog
    /\ selectedPlan' = <<[id |-> dbPlans[k].id]>>
    /\ showPlanDeleteDialog' = TRUE
    /\ UNCHANGED <<exceptPlansPage, planStoreVars, showAddPlanDialog, showEditPlanDialog,
                   planFormData, planMutationVars, planToast, deletePlanMutation>>

\* "Cancel" in the Delete dialog, or the dialog is dismissed
ClosePlanDelete ==
  /\ showPlanDeleteDialog
  /\ showPlanDeleteDialog' = FALSE
  /\ UNCHANGED <<exceptPlansPage, planStoreVars, planDialogVars, planFormData,
                 planMutationVars, planToast, deletePlanMutation>>

\* confirmDelete: "Delete Plan"; the button is disabled while the mutation is pending
confirmPlanDelete ==
  /\ showPlanDeleteDialog
  /\ ~deletePlanMutation.isPending
  /\ selectedPlan # <<>>
  /\ planRequestsSent < MaxRequests
  /\ planRequestsSent' = planRequestsSent + 1
  /\ deletePlanMutation' = Sent(selectedPlan[1].id)
  /\ UNCHANGED <<exceptPlansPage, planStoreVars, planDialogVars, planFormData,
                 createPlanMutation, updatePlanMutation, planToast, showPlanDeleteDialog>>

\* the server handles the DELETE of the page
HandleDeletePlan ==
  /\ InFlight(deletePlanMutation)
  /\ dbPlans' = deletePricingPlan(deletePlanMutation.request[1])
  /\ deletePlanMutation' = [deletePlanMutation EXCEPT !.reply = <<[error |-> ""]>>]
  /\ UNCHANGED <<exceptPlansPage, pricingPlans, planDialogVars, planFormData,
                 planMutationVars, planToast, showPlanDeleteDialog>>

\* deletePlanMutation settles: onSuccess or onError
DeletePlanSettled ==
  /\ Replied(deletePlanMutation)
  /\ deletePlanMutation' = IdleMutation
  /\ IF deletePlanMutation.reply[1].error = ""
     THEN /\ showPlanDeleteDialog' = FALSE
          /\ selectedPlan' = <<>>
          /\ planToast' = Toast("Plan Deleted", "Pricing plan has been deleted")
     ELSE /\ planToast' = ErrorToast(deletePlanMutation.reply[1],
                                     "Failed to delete pricing plan")
          /\ UNCHANGED <<showPlanDeleteDialog, selectedPlan>>
  /\ UNCHANGED <<exceptPlansPage, planStoreVars, showAddPlanDialog, showEditPlanDialog,
                 planFormData, planMutationVars>>

\* the three dialogs, the name and the switch of the form, the server and the callbacks
NextPlanDialogs ==
  \/ PlanRequests
  \/ handlePlanDelete \/ ClosePlanDelete \/ confirmPlanDelete
  \/ HandleDeletePlan \/ DeletePlanSettled
  \/ handlePlanNameChange \/ handlePublicToggle

SpecPlanDialogs == InitPlans /\ [][NextPlanDialogs]_vars

\* C21: a submit of the 'Add Pricing Plan' dialog always starts a create request and
\* never an update of a stored plan, whatever happened before, also after the edit or
\* the delete dialog of a plan was opened and then cancelled or dismissed.
C21_AddDialogCreates ==
  [][SubmitAddPlan => /\ createPlanMutation'.isPending
                      /\ UNCHANGED updatePlanMutation]_vars

(***************************************************************************)
(* The review dialog: the button that opened it and the request of its     *)
(* submit.                                                                 *)
(***************************************************************************)
\* the submit of this step starts a create request and no update
SubmitCreates == submitReviewMutation'.isPending /\ UNCHANGED updateReviewMutation

\* the submit of this step starts an update of the review with this id
SubmitUpdates(reviewId) ==
  /\ updateReviewMutation'.isPending
  /\ updateReviewMutation'.request[1].reviewId = reviewId
  /\ UNCHANGED submitReviewMutation

\* C22: a submit of the review dialog that 'Write a Review' or 'Add Your Review' opened
\* starts a create request, and an update request is started only from the dialog that
\* the edit action opened for the review it updates, whatever happened before, also
\* after an edit dialog was dismissed without its Cancel button.
C22_SubmitFollowsOpener ==
  [][handleSubmit =>
       /\ dialogOpenedBy.by = "write" => SubmitCreates
       /\ ~SubmitCreates => /\ dialogOpenedBy.by = "edit"
                            /\ SubmitUpdates(dialogOpenedBy.reviewId)]_vars

(***************************************************************************)
(* The answers of GET / and POST /, by the request that was served.        *)
(***************************************************************************)
\* the request served last came without a session or without a user
Unauthenticated == req # <<>> /\ req[1].user = Anonymous

\* the request was refused before its handler: 401, and the storage was not called
Refused == response[1].status = 401 /\ storageCalls = <<>>

\* a step that serves a request of the routes
RouteStep == DirectPost \/ DirectGet

\* C23: a request to GET / or POST / of a caller that is not authenticated is answered
\* with status 401 and its handler never runs: neither getUserOAuthApps nor
\* createOAuthApp is invoked for it, and the stored applications stay as they are.
C23_UnauthenticatedRefused ==
  /\ [](Unauthenticated => Refused)
  /\ [][RouteStep /\ Unauthenticated' => dbApps' = dbApps]_vars

\* a POST / without a session that carried every required field, while the storage
\* would have accepted the application
C23_Witness ==
  /\ Unauthenticated
  /\ Refused
  /\ req[1].method = "POST"
  /\ req[1].body = CompleteBody
  /\ ~req[1].throws
  /\ Len(dbApps) < MaxApps

\* name, description, homepageUrl and callbackUrl
RequiredFields == {"name", "description", "homepageUrl", "callbackUrl"}

\* one of the required fields of the body is missing or empty
LacksRequired(body) == \E field \in RequiredFields : body[field] = ""

\* the request served last is a POST / of an authenticated caller
AuthenticatedPost == req # <<>> /\ req[1].method = "POST" /\ req[1].user # Anonymous

\* the application of the response is stored, is owned by the requester and carries
\* the fields of the body
CreatedFor(request, app) ==
  /\ \E k \in 1..Len(dbApps) : dbApps[k] = app
  /\ app.userId = request.user
  /\ \A field \in RequiredFields : app[field] = request.body[field]

\* the answers of POST / to the request served last
PostAnswered ==
  AuthenticatedPost =>
    /\ LacksRequired(req[1].body)
         => response[1].status = 400 /\ storageCalls = <<>>
    /\ ~LacksRequired(req[1].body) /\ ~req[1].throws
         => /\ response[1].status = 201
            /\ storageCalls = <<"createOAuthApp">>
            /\ CreatedFor(req[1], response[1].app)

\* C24: a POST / in which name, description, homepageUrl or callbackUrl is missing or
\* empty is answered with status 400 without a call of createOAuthApp, so that the
\* stored applications are unchanged; with all four present and a storage that
\* succeeds the answer is 201 with the created application, owned by the requester.
C24_PostValidated ==
  /\ []PostAnswered
  /\ [][DirectPost /\ AuthenticatedPost' /\ LacksRequired(req'[1].body)
          => dbApps' = dbApps]_vars

\* one POST / was refused for an empty callbackUrl only, after another had stored an
\* application
C24_Witness ==
  /\ AuthenticatedPost
  /\ req[1].body = [CompleteBody EXCEPT !.callbackUrl = ""]
  /\ response[1].status = 400
  /\ Len(dbApps) = 1

(***************************************************************************)
(* The create and update requests of the review dialog.                    *)
(***************************************************************************)
\* a create or an update request of the page awaits its answer or its callback
ReviewWritesPending ==
  {m \in {"submit", "update"} :
     IF m = "submit" THEN submitReviewMutation.isPending ELSE updateReviewMutation.isPending}

\* this step starts a create or an update request
StartsReviewWrite ==
  \/ submitReviewMutation'.isPending /\ submitReviewMutation' # submitReviewMutation
                                     /\ submitReviewMutation'.reply = <<>>
  \/ updateReviewMutation'.isPending /\ updateReviewMutation' # updateReviewMutation
                                     /\ updateReviewMutation'.reply = <<>>

\* C25: while a submit or an update request of a review is pending, the review dialog
\* starts no second submit or update request: at most one create or update request of
\* the page is in flight at any time.
C25_OneWriteInFlight ==
  /\ [](Cardinality(ReviewWritesPending) <= 1)
  /\ [][StartsReviewWrite => ReviewWritesPending = {}]_vars

\* an update request is pending while the dialog is open again for a new review: its
\* submit button is disabled
C25_Witness ==
  /\ InFlight(updateReviewMutation)
  /\ showReviewDialog
  /\ dialogOpenedBy.by = "write"
  /\ ~isEditing

\* C26: whenever the 'Add Pricing Plan' dialog is opened, the form holds the default
\* values: an empty name, price 0, billingInterval 'monthly', one empty feature and
\* isPublic true, after any sequence of create, edit, update, delete and cancel actions.
C26_AddDialogOpensEmpty ==
  [][OpenAddPlan =>
       planFormData' = [name |-> "", price |-> Number(0), billingInterval |-> "monthly",
                        features |-> << <<>> >>, isPublic |-> TRUE]]_vars

\* C27: in every reachable state of the pricing plan form the features list has at least
\* one entry, after any sequence of add, change, remove, edit and reset actions.
C27_FeaturesNeverEmpty == Len(planFormData.features) >= 1

(***************************************************************************)
(* OAuthAppDetails: the subscribe dialog and the delayed completion of a   *)
(* confirmed subscription.  The callbacks of setTimeout, all set with the  *)
(* same delay, run in the order in which they were set.                    *)
(***************************************************************************)
\* everything but the subscribe dialog
exceptSubscribe == <<dbReviews, reviews, pageVars, nextReviewId, sessionUser, userReview,
                     formVars, mutationVars, toast, requestsSent, appsVars, displayVars,
                     newAppVars, deleteAppVars, plansVars, routeVars, showSecrets>>

\* the ids of the plans listed on the page
ListedPlanIds == {1, 2}

\* handleSubscribe(plan): "Subscribe" on the card of a plan
handleSubscribe ==
  \E planId \in ListedPlanIds :
    /\ ~showSubscribeDialog
    /\ subscribeOpenings < MaxOpenings
    /\ subscribePlan' = <<planId>>
    /\ showSubscribeDialog' = TRUE
    /\ subscribeOpenings' = subscribeOpenings + 1
    /\ UNCHANGED <<exceptSubscribe, subscribeTimeouts, subscribeToasts>>

\* "Cancel" in the subscribe dialog, or the dialog is dismissed
CancelSubscribe ==
  /\ showSubscribeDialog
  /\ showSubscribeDialog' = FALSE
  /\ UNCHANGED <<exceptSubscribe, subscribePlan, subscribeOpenings, subscribeTimeouts,
                 subscribeToasts>>

\* the confirmations made so far
Confirmations ==
  Cardinality({k \in 1..Len(subscribeToasts) :
                 subscribeToasts[k].title = "Subscription Processing"})

\* confirmSubscription: "Confirm Subscription"; the callback it sets remembers the
\* opening of the dialog and the confirmation it belongs to
confirmSubscription ==
  /\ showSubscribeDialog
  /\ subscribePlan # <<>>
  /\ Confirmations < MaxConfirmations
  /\ subscribeToasts' = Append(subscribeToasts,
                               [title |-> "Subscription Processing",
                                confirmation |-> Confirmations + 1])
  /\ subscribeTimeouts' = Append(subscribeTimeouts,
                                 [opening |-> subscribeOpenings,
                                  confirmation |-> Confirmations + 1])
  /\ UNCHANGED <<exceptSubscribe, subscribePlan, showSubscribeDialog, subscribeOpenings>>

\* the callback of setTimeout runs, 1.5 s after its confirmation
subscriptionTimeout ==
  /\ subscribeTimeouts # <<>>
  /\ subscribeToasts' = Append(subscribeToasts,
                               [title |-> "Subscription Complete",
                                confirmation |-> Head(subscribeTimeouts).confirmation])
  /\ showSubscribeDialog' = FALSE
  /\ subscribeTimeouts' = Tail(subscribeTimeouts)
  /\ UNCHANGED <<exceptSubscribe, subscribePlan, subscribeOpenings>>

NextSubscribe ==
  \/ handleSubscribe \/ CancelSubscribe
  \/ confirmSubscription \/ subscriptionTimeout

SpecSubscribe == InitCredentials /\ [][NextSubscribe]_vars

\* a callback that closes a dialog closes the dialog whose confirmation set it
ClosesOwnDialog ==
  subscriptionTimeout /\ showSubscribeDialog
    => Head(subscribeTimeouts).opening = subscribeOpenings

\* the positions of the notifications of a confirmation with this title
ToastsOf(confirmation, title) ==
  {k \in 1..Len(subscribeToasts) :
     /\ subscribeToasts[k].confirmation = confirmation
     /\ subscribeToasts[k].title = title}

\* a confirmation has one 'Subscription Processing' and at most one 'Subscription
\* Complete', which follows it
NotifiedOnce ==
  \A confirmation \in 1..Confirmations :
    /\ Cardinality(ToastsOf(confirmation, "Subscription Processing")) = 1
    /\ Cardinality(ToastsOf(confirmation, "Subscription Complete")) <= 1
    /\ \A p \in ToastsOf(confirmation, "Subscription Processing"),
          c \in ToastsOf(confirmation, "Subscription Complete") : p < c

\* C28: the delayed completion of a confirmed subscription closes only the subscribe
\* dialog that was confirmed: a dialog that was cancelled and opened again for another
\* plan before the delay elapsed stays open until it is itself confirmed or cancelled;
\* and each confirmation raises exactly one 'Subscription Complete' notification, after
\* its 'Subscription Processing' notification.
C28_CompletionClosesOwnDialog == []NotifiedOnce /\ [][ClosesOwnDialog]_vars

(***************************************************************************)
(* MyOAuthApps: the Client Secret of each listed application and the       *)
(* button that shows or hides it.                                          *)
(***************************************************************************)
\* everything but showSecrets
exceptSecrets == <<dbReviews, reviews, pageVars, nextReviewId, sessionUser, userReview,
                   formVars, mutationVars, toast, requestsSent, appsVars, displayVars,
                   newAppVars, deleteAppVars, plansVars, routeVars, subscribeVars>>

\* showSecrets[app.id] is truthy
Truthy(flag) == flag = "true"

\* { ...prev, [appId]: !prev[appId] }
toggledMutant(flags, appId) == [id \in DOMAIN flags |-> "true"]
toggled(flags, appId) ==
  [flags EXCEPT ![appId] = IF Truthy(@) THEN "false" ELSE "true"]

\* the text shown in place of a secret that is hidden
Mask == "masked"

\* showSecrets[app.id] ? app.clientSecret : the mask
secretShown(app) == IF Truthy(showSecrets[app.id]) THEN app.clientSecret ELSE Mask

\* the eye next to the Client Secret of a listed application that has one
toggleSecretVisibility ==
  \E k \in 1..Len(myApps.data) :
    /\ myApps.loaded
    /\ ~showRegenerateCredentialsDialog
    /\ myApps.data[k].clientSecret # NullToken
    /\ showSecrets' = toggled(showSecrets, myApps.data[k].id)
    /\ UNCHANGED exceptSecrets

\* the page creates applications, regenerates their credentials and shows their secrets
NextSecrets ==
  \/ CreateApp
  \/ FetchMyApps
  \/ OpenRegenerateCredentials \/ CloseRegenerateCredentials
  \/ confirmRegenerateCredentials
  \/ HandleRegenerateCredentials
  \/ RegenerateSettled
  \/ toggleSecretVisibility

SpecSecrets == InitCredentials /\ [][NextSecrets]_vars

\* the listed applications that have a client secret
WithSecret == {k \in 1..Len(myApps.data) : myApps.data[k].clientSecret # NullToken}

\* a secret is shown in clear exactly while the flag of its application is on, and
\* masked otherwise, also while the flag was never set
MaskedUnlessOn ==
  \A k \in WithSecret :
    /\ showSecrets[myApps.data[k].id] = "true"
         => secretShown(myApps.data[k]) = myApps.data[k].clientSecret
    /\ showSecrets[myApps.data[k].id] \in {Undefined, "false"}
         => secretShown(myApps.data[k]) = Mask
    /\ myApps.data[k].clientSecret # Mask

\* the application ids whose secret changes between shown and masked in this step
Flipped == {id \in DOMAIN showSecrets : Truthy(showSecrets'[id]) # Truthy(showSecrets[id])}

\* a toggle flips the visibility of one application and leaves every other flag alone
ToggleFrame ==
  toggleSecretVisibility
    => /\ Cardinality(Flipped) = 1
       /\ \A id \in DOMAIN showSecrets \ Flipped : showSecrets'[id] = showSecrets[id]

\* two toggles of the same application restore the visibility of every application
TwiceRestores ==
  \A appId \in DOMAIN showSecrets :
    \A id \in DOMAIN showSecrets :
      Truthy(toggled(toggled(showSecrets, appId), appId)[id]) = Truthy(showSecrets[id])

\* C29: the client secret of an application is masked by default and shown in clear
\* only while the visibility flag of that application is on; a toggle for one
\* application leaves the flag of every other application unchanged, and two toggles
\* of the same application restore its previous state.
C29_SecretVisibility ==
  /\ [](MaskedUnlessOn /\ TwiceRestores)
  /\ [][ToggleFrame]_vars

\* two listed applications have a secret; the first is shown in clear after a toggle,
\* the second was never toggled and is masked
C29_Witness ==
  /\ Cardinality(WithSecret) = 2
  /\ \E j \in WithSecret, k \in WithSecret :
       /\ showSecrets[myApps.data[j].id] = "true"
       /\ secretShown(myApps.data[j]) = myApps.data[j].clientSecret
       /\ showSecrets[myApps.data[k].id] = Undefined
       /\ secretShown(myApps.data[k]) = Mask

=============================================================================
